---- MODULE Spec2Model ----
(***************************************************************************)
(* A model of pravegasink (gst-plugin-pravega/src/pravegasink/imp.rs): the *)
(* element's settings, its Stopped/Started state, and the start, render    *)
(* and stop handlers writing a data stream and an index stream.            *)
(*                                                                         *)
(* Scaling.  Timestamps, durations and intervals are u64 nanoseconds in    *)
(* the source.  The model keeps the 64-bit width as the scaled word        *)
(* 0..U64Max: an interval may be any word value (the properties            *)
(* index-min-sec and index-max-sec range up to infinity and the cast       *)
(* `as u64` saturates to u64::MAX), while buffer timestamps and durations  *)
(* stay in the low part of the word, as nanoseconds since 1970 do.         *)
(*                                                                         *)
(* The canonical timestamp of a buffer (imp.rs 895-911, computed by        *)
(* pravega_video::timestamp from the pts) is an input of render.           *)
(***************************************************************************)
EXTENDS Integers, Sequences, FiniteSets, TLC

\* ------------------------------------------------------------------ bounds
\* Largest value of the scaled u64 word.
U64Max == 15
\* Buffer timestamps are drawn from 0..MaxTime (and NONE).
MaxTime == 2
\* A buffer's duration is MaxDuration or NONE.
MaxDuration == 2
\* Intervals are drawn from 0..MaxInterval and U64Max.
MaxInterval == 1
\* Payload lengths are drawn from 0..MaxPayloadLen.
MaxPayloadLen == 3
\* Number of render calls in one behaviour.
MaxCalls == 2
\* Number of final records in one behaviour (a stop that fails after it
\* wrote the final record can be called again, and writes it again).
MaxFinalRecords == 2
\* retention-bytes is 0 or MaxBytes.
MaxBytes == 2
\* Number of sessions (successful starts) in one behaviour of SpecStart.
MaxSessions == 2

\* ------------------------------------------------------- program constants
\* PravegaTimestamp::NONE, and None of an Option<u64>.
NONE == -1
\* EventWithHeader::max_payload_size(), scaled.
MaxPayloadSize == 2
\* Bytes an EventWriter adds in front of each payload, scaled.
EventHeaderSize == 1

IsSome(x) == x # NONE

Max(a, b) == IF a >= b THEN a ELSE b

Min(a, b) == IF a <= b THEN a ELSE b

\* gst::BufferFlags read by render.
BufferFlags == {"DELTA_UNIT", "DISCONT", "RESYNC", "SYNC_AFTER"}

\* `a + b` on u64: the sum when it fits; otherwise the build decides, a
\* panic with overflow checks and the wrapped value without.
AddU64(a, b) ==
    [overflow |-> a + b > U64Max, value |-> (a + b) % (U64Max + 1)]

\* ---------------------------------------------------------------- state
VARIABLES
    overflow_checks,        \* build profile: TRUE panics on overflow
    settings,               \* Settings
    state,                  \* "Stopped" or "Started"
    first_valid_time,       \* State::Started fields
    last_index_time,
    final_timestamp,
    final_offset,
    buffers_written,
    retention_thread_handle,
    writer_pos,             \* position of the CountingWriter
    data_stream,            \* events appended to the data stream
    data_flushed,           \* data-stream offset below which all is flushed
    index_stream,           \* records appended to the index stream
    index_flushed,          \* number of index records flushed
    sealed,                 \* streams sealed, a subset of {"data", "index"}
    created,                \* what start has created on the controller
    panicked,               \* a handler panicked: the state mutex is poisoned
    session,                \* number of successful starts (history)
    calls,                  \* number of render calls (history)
    decision,               \* the last render's inputs and decision (history)
    result,                 \* the last handler and what it returned (history)
    rendered,               \* log of the render calls (history, SpecFinal)
    last_stage,             \* where the last handler call stopped
                            \* (history, SpecStart and SpecSeal)
    last_fail,              \* the failure the storage had for that call
                            \* (history, SpecStart and SpecSeal)
    pc,                     \* where each calling thread is in its handler
                            \* (SpecLocks)
    state_lock,             \* the thread holding the Mutex of `state`, or
                            \* "free"
    settings_lock,          \* the thread holding the Mutex of `settings`,
                            \* or "free"
    stopping,               \* stop is blocked in JoinHandle::join
    maintainer,             \* position of the retention maintainer thread
    retention_policy,       \* the maintainer's RetentionPolicy
    search_result,          \* the maintainer's last Ok(result) of a search
    stop_sent,              \* a message is in the thread_stop channel
    index_head,             \* index records truncated (by truncate_data_before)
    data_head,              \* data-stream offset truncated before
    truncation,             \* the last truncation issued (history)
    cycle_time_offset,      \* data offset the time step of this cycle
                            \* truncated at, or NONE (history)
    pairs_after_stop        \* search+truncate pairs the maintainer went
                            \* through since the stop message (history)

vars == <<overflow_checks, settings, state, first_valid_time, last_index_time,
          final_timestamp, final_offset, buffers_written,
          retention_thread_handle, writer_pos, data_stream, data_flushed,
          index_stream, index_flushed, sealed, created, panicked, session,
          calls, decision, result, rendered, last_stage, last_fail, pc,
          state_lock, settings_lock, stopping, maintainer,
          retention_policy, search_result, stop_sent, index_head, data_head,
          truncation, cycle_time_offset, pairs_after_stop>>

\* The two mutexes of the element and the threads calling it.
lockVars == <<pc, state_lock, settings_lock>>

\* The threads that call the element, one per handler.
Threads == {"start", "render", "stop", "set_property"}

sessionVars == <<first_valid_time, last_index_time, final_timestamp,
                 final_offset, buffers_written>>

streamVars == <<writer_pos, data_stream, data_flushed, index_stream,
                index_flushed, sealed>>

\* The maintainer thread, its channel, and what it did to the streams.
maintainerVars == <<maintainer, retention_policy, search_result, stop_sent,
                    index_head, data_head, truncation, cycle_time_offset,
                    pairs_after_stop>>

\* Settings::default(), with the defaults 0.5 s and 10 s scaled.
DefaultSettings ==
    [stream |-> FALSE, controller |-> TRUE, seal |-> FALSE,
     index_min_nanos |-> 0, index_max_nanos |-> MaxInterval,
     allow_create_scope |-> TRUE, retention_type |-> "None",
     retention_days |-> NONE, retention_bytes |-> NONE]

NoDecision == [outcome |-> "none"]

NoPolicy == [ok |-> TRUE, type |-> "None", days |-> NONE, bytes |-> NONE]

NoResult == [found |-> FALSE, index_offset |-> 0, offset |-> 0]

NoTruncation ==
    [stream |-> "none", step |-> "none", offset |-> 0, head |-> 0,
     writer_pos |-> 0, state |-> "Stopped", time_offset |-> NONE]

Init ==
    /\ overflow_checks \in BOOLEAN
    /\ settings = DefaultSettings
    /\ state = "Stopped"
    /\ first_valid_time = NONE
    /\ last_index_time = NONE
    /\ final_timestamp = NONE
    /\ final_offset = NONE
    /\ buffers_written = 0
    /\ retention_thread_handle = FALSE
    /\ writer_pos = 0
    /\ data_stream = <<>>
    /\ data_flushed = 0
    /\ index_stream = <<>>
    /\ index_flushed = 0
    /\ sealed = {}
    /\ created = {}
    /\ panicked = FALSE
    /\ session = 0
    /\ calls = 0
    /\ decision = NoDecision
    /\ result = [op |-> "new", res |-> "Ok"]
    /\ rendered = <<>>
    /\ last_stage = "new"
    /\ last_fail = "none"
    /\ pc = [t \in Threads |-> "idle"]
    /\ state_lock = "free"
    /\ settings_lock = "free"
    /\ stopping = FALSE
    /\ maintainer = "none"
    /\ retention_policy = NoPolicy
    /\ search_result = NoResult
    /\ stop_sent = FALSE
    /\ index_head = 0
    /\ data_head = 0
    /\ truncation = NoTruncation
    /\ cycle_time_offset = NONE
    /\ pairs_after_stop = 0

\* ------------------------------------------------------------ RetentionPolicy
\* RetentionPolicy::new with DaysAndBytes looking at retention-days only.
RetentionPolicyNewDaysOnly(retention_type, days, bytes) ==
    CASE retention_type = "Days" ->
            [ok |-> IsSome(days), type |-> "Days", days |-> days, bytes |-> NONE]
      [] retention_type = "Bytes" ->
            [ok |-> IsSome(bytes), type |-> "Bytes", days |-> NONE, bytes |-> bytes]
      [] retention_type = "DaysAndBytes" ->
            [ok |-> IsSome(days), type |-> "DaysAndBytes",
             days |-> days, bytes |-> bytes]
      [] OTHER -> NoPolicy

\* RetentionPolicy::new: Ok(policy), or Err when a parameter that the
\* selected type requires is not set.
RetentionPolicyNew(retention_type, days, bytes) ==
    CASE retention_type = "Days" ->
            [ok |-> IsSome(days), type |-> "Days", days |-> days, bytes |-> NONE]
      [] retention_type = "Bytes" ->
            [ok |-> IsSome(bytes), type |-> "Bytes", days |-> NONE, bytes |-> bytes]
      [] retention_type = "DaysAndBytes" ->
            [ok |-> IsSome(days) /\ IsSome(bytes), type |-> "DaysAndBytes",
             days |-> days, bytes |-> bytes]
      [] OTHER -> NoPolicy

\* run without its early `return None`.
MaintainerSpawnsAlways(policy) == TRUE

\* RetentionMaintainer::run returns a thread handle unless the policy has
\* neither a time nor a size component.
MaintainerSpawns(policy) ==
    ~(policy.days = NONE /\ policy.bytes = NONE)

\* ------------------------------------------------------------- set_property
\* `(index_min_sec * 1e9) as u64`: a float-to-integer cast saturates.
SecToNanos(nanos) == IF nanos > U64Max THEN U64Max ELSE nanos

\* set_property(name, value).  For "stream" the value TRUE is a well-formed
\* scope/stream and FALSE a malformed one, which set_stream rejects; for
\* "controller" FALSE is the empty string.  The interval properties take the
\* requested interval in (scaled) nanoseconds before the cast.
SetProperty(name, value) ==
    /\ settings' =
          CASE name = "stream" ->
                  IF value THEN [settings EXCEPT !.stream = TRUE] ELSE settings
            [] name = "controller" -> [settings EXCEPT !.controller = value]
            [] name = "seal" -> [settings EXCEPT !.seal = value]
            [] name = "index-min-sec" ->
                  [settings EXCEPT !.index_min_nanos = SecToNanos(value)]
            [] name = "index-max-sec" ->
                  [settings EXCEPT !.index_max_nanos = SecToNanos(value)]
            [] name = "allow-create-scope" ->
                  [settings EXCEPT !.allow_create_scope = value]
            [] name = "retention-type" -> [settings EXCEPT !.retention_type = value]
            [] name = "retention-days" -> [settings EXCEPT !.retention_days = value]
            [] name = "retention-bytes" -> [settings EXCEPT !.retention_bytes = value]
    /\ UNCHANGED <<overflow_checks, state, sessionVars, retention_thread_handle,
                   streamVars, created, panicked, session, calls, decision,
                   result, stopping, maintainerVars>>

\* -------------------------------------------------------------------- start
\* Offset of the end of the data stream (seek_to_tail).
DataTail ==
    IF data_stream = <<>> THEN 0
    ELSE LET e == data_stream[Len(data_stream)]
         IN  e.offset + EventHeaderSize + Len(e.payload)

\* Where start stops: the first check or call that fails, in source order.
\* `fail` names the controller call the storage fails, or "none".
StartStage(fail) ==
    IF ~(settings.index_min_nanos <= settings.index_max_nanos) THEN "bad_intervals"
    ELSE IF ~settings.stream THEN "no_stream"
    ELSE IF ~settings.controller THEN "no_controller"
    ELSE IF fail = "client_config" THEN "client_config_failed"
    ELSE IF settings.allow_create_scope /\ fail = "create_scope"
         THEN "create_scope_failed"
    ELSE IF fail = "create_data_stream" THEN "create_data_stream_failed"
    ELSE IF fail = "create_index_stream" THEN "create_index_stream_failed"
    ELSE IF ~RetentionPolicyNew(settings.retention_type, settings.retention_days,
                                settings.retention_bytes).ok
         THEN "bad_retention_policy"
    ELSE "ok"

\* What the controller holds after a start that got to `stage`.
StartCreated(stage) ==
    created
      \cup (IF settings.allow_create_scope
               /\ stage \notin {"bad_intervals", "no_stream", "no_controller",
                                "client_config_failed", "create_scope_failed"}
            THEN {"scope"} ELSE {})
      \cup (IF stage \in {"create_index_stream_failed", "bad_retention_policy", "ok"}
            THEN {"data"} ELSE {})
      \cup (IF stage \in {"bad_retention_policy", "ok"} THEN {"index"} ELSE {})

\* The calls to the controller and the storage that start has made when it
\* stops at `stage`: create_scope (if allowed), create_stream of the data
\* and of the index stream, create_byte_writer of both.
StartCalls(stage) ==
    (IF settings.allow_create_scope
        /\ stage \notin {"bad_intervals", "no_stream", "no_controller",
                         "client_config_failed"}
     THEN {"create_scope"} ELSE {})
      \cup (IF stage \in {"create_data_stream_failed",
                          "create_index_stream_failed", "bad_retention_policy",
                          "ok"}
            THEN {"create_data_stream"} ELSE {})
      \cup (IF stage \in {"create_index_stream_failed", "bad_retention_policy",
                          "ok"}
            THEN {"create_index_stream"} ELSE {})
      \cup (IF stage \in {"bad_retention_policy", "ok"}
            THEN {"create_byte_writer"} ELSE {})

\* start with the error of RetentionPolicy::new dropped.
StartSucceedsWithoutPolicy(stage) == stage \in {"ok", "bad_retention_policy"}

\* start goes on to State::Started when no check and no call returned Err.
StartSucceeds(stage) == stage = "ok"

\* run: the (seconds, bytes) of the policy, and where the loop begins.
HasSeconds(policy) == policy.type \in {"Days", "DaysAndBytes"}

HasBytes(policy) == policy.type \in {"Bytes", "DaysAndBytes"}

LoopTop(policy) == IF HasSeconds(policy) THEN "time" ELSE "size"

Start(fail) ==
    /\ ~panicked
    /\ ~stopping
    /\ IF state = "Started"
       THEN \* unreachable!("PravegaSink already started")
            /\ panicked' = TRUE
            /\ result' = [op |-> "start", res |-> "Panic"]
            /\ UNCHANGED <<overflow_checks, settings, state, sessionVars,
                           retention_thread_handle, streamVars, created,
                           session, calls, decision, stopping,
                           maintainerVars>>
       ELSE LET stage == StartStage(fail)
                policy == RetentionPolicyNew(settings.retention_type,
                                             settings.retention_days,
                                             settings.retention_bytes)
            IN  /\ created' = StartCreated(stage)
                /\ IF StartSucceeds(stage)
                   THEN /\ state' = "Started"
                        /\ writer_pos' = DataTail
                        /\ first_valid_time' = NONE
                        /\ last_index_time' = NONE
                        /\ final_timestamp' = NONE
                        /\ final_offset' = NONE
                        /\ buffers_written' = 0
                        /\ retention_thread_handle' = MaintainerSpawns(policy)
                        /\ maintainer' = IF MaintainerSpawns(policy)
                                         THEN LoopTop(policy) ELSE "none"
                        /\ retention_policy' = policy
                        /\ search_result' = NoResult
                        /\ stop_sent' = FALSE
                        /\ cycle_time_offset' = NONE
                        /\ pairs_after_stop' = 0
                        /\ session' = session + 1
                        /\ result' = [op |-> "start", res |-> "Ok"]
                   ELSE /\ result' = [op |-> "start", res |-> "Err"]
                        /\ UNCHANGED <<state, writer_pos, sessionVars,
                                       retention_thread_handle, session,
                                       maintainer, retention_policy,
                                       search_result, stop_sent,
                                       cycle_time_offset, pairs_after_stop>>
                /\ UNCHANGED <<overflow_checks, settings, data_stream,
                               data_flushed, index_stream, index_flushed,
                               sealed, panicked, calls, decision, stopping,
                               index_head, data_head, truncation>>

\* ------------------------------------------------------------------- render
\* The include_in_index decision of render.  `checked` is the build's
\* overflow_checks: with it an overflowing sum panics, without it the sum
\* wraps.  Only the sum of the branch taken is computed.
IncludeInIndex(checked, timestamp, is_delta_unit, last_index, first_valid, index_min_nanos, index_max_nanos) ==
    IF IsSome(timestamp)
    THEN IF IsSome(last_index)
         THEN IF is_delta_unit
              THEN LET sum == AddU64(last_index, index_max_nanos)
                   IN  IF checked /\ sum.overflow
                       THEN [panic |-> TRUE, include |-> FALSE]
                       ELSE [panic |-> FALSE, include |-> timestamp > sum.value]
              ELSE LET sum == AddU64(last_index, index_min_nanos)
                   IN  IF checked /\ sum.overflow
                       THEN [panic |-> TRUE, include |-> FALSE]
                       ELSE [panic |-> FALSE, include |-> ~(timestamp < sum.value)]
         ELSE IF ~is_delta_unit
              THEN [panic |-> FALSE, include |-> TRUE]
              ELSE IF IsSome(first_valid)
                   THEN LET sum == AddU64(first_valid, index_max_nanos)
                        IN  IF checked /\ sum.overflow
                            THEN [panic |-> TRUE, include |-> FALSE]
                            ELSE [panic |-> FALSE,
                                  include |-> timestamp > sum.value]
                   ELSE [panic |-> FALSE, include |-> FALSE]
    ELSE [panic |-> FALSE, include |-> FALSE]

\* The discontinuity flag without the first-index-record case.
DiscontinuityNoFirstIndex(flags, written, include_in_index, last_index) ==
    \/ "DISCONT" \in flags
    \/ "RESYNC" \in flags
    \/ written = 0

\* The discontinuity flag of render.
Discontinuity(flags, written, include_in_index, last_index) ==
    \/ "DISCONT" \in flags
    \/ "RESYNC" \in flags
    \/ written = 0
    \/ (include_in_index /\ ~IsSome(last_index))

\* The payload of a buffer of `len` bytes: byte i of it is i.
Payload(len) == [i \in 1..len |-> i]

\* The fragmentation loop with every chunk written as the first one is,
\* carrying the buffer's flags.
RECURSIVE FragmentsAllFlagged(_, _, _, _, _, _)
FragmentsAllFlagged(payload, pos_to_write, timestamp, include_in_index, random_access, discontinuity) ==
    LET length_to_write == Min(Len(payload) - pos_to_write, MaxPayloadSize)
    IN  IF length_to_write = 0
        THEN <<>>
        ELSE <<[payload |-> SubSeq(payload, pos_to_write + 1,
                                   pos_to_write + length_to_write),
                timestamp |-> timestamp,
                include_in_index |-> include_in_index,
                random_access |-> random_access,
                discontinuity |-> discontinuity]>>
             \o FragmentsAllFlagged(payload, pos_to_write + length_to_write,
                                    timestamp, include_in_index, random_access,
                                    discontinuity)

\* The fragmentation loop of render, from pos_to_write on: the events it
\* hands to the EventWriter, in order.
RECURSIVE Fragments(_, _, _, _, _, _)
Fragments(payload, pos_to_write, timestamp, include_in_index, random_access, discontinuity) ==
    LET length_to_write == Min(Len(payload) - pos_to_write, MaxPayloadSize)
        first == pos_to_write = 0
    IN  IF length_to_write = 0
        THEN <<>>
        ELSE <<[payload |-> SubSeq(payload, pos_to_write + 1,
                                   pos_to_write + length_to_write),
                timestamp |-> timestamp,
                include_in_index |-> first /\ include_in_index,
                random_access |-> first /\ random_access,
                discontinuity |-> first /\ discontinuity]>>
             \o Fragments(payload, pos_to_write + length_to_write, timestamp,
                          include_in_index, random_access, discontinuity)

\* Bytes a sequence of events takes in the data stream.
RECURSIVE EventsSize(_)
EventsSize(events) ==
    IF events = <<>> THEN 0
    ELSE EventHeaderSize + Len(events[1].payload) + EventsSize(Tail(events))

\* The events as the data stream holds them: each with its offset and, as
\* history, the session and the render call that wrote it.  An index record
\* likewise carries, as history, who wrote it (`by`), in which session, for
\* which render call, and the flushed data offset when it was appended.
RECURSIVE Placed(_, _, _)
Placed(events, offset, call) ==
    IF events = <<>> THEN <<>>
    ELSE <<[payload |-> events[1].payload,
            timestamp |-> events[1].timestamp,
            include_in_index |-> events[1].include_in_index,
            random_access |-> events[1].random_access,
            discontinuity |-> events[1].discontinuity,
            offset |-> offset, session |-> session, call |-> call]>>
         \o Placed(Tail(events),
                   offset + EventHeaderSize + Len(events[1].payload), call)

\* render with its flush of the data writer left out.
RenderFlushSkipped(flush) == data_flushed

\* The data-stream offset below which all is flushed, after render's
\* conditional flush of the data writer (`if flush { writer.flush() }`).
RenderFlush(flush) == IF flush THEN writer_pos ELSE data_flushed

\* stop without its flush of the data writer.
StopFlushSkipped == data_flushed

\* The same after stop's flush of the data writer.
StopFlush == writer_pos

\* Index records the current session's renders have appended (history).
SessionRenderRecords ==
    SelectSeq(index_stream, LAMBDA r : r.session = session /\ r.by = "render")

\* The final timestamp without the buffer's duration added.
FinalTimestampNoDuration(timestamp, duration) ==
    [overflow |-> FALSE, value |-> timestamp]

\* The final_timestamp render records for a buffer with a valid timestamp:
\* `t + max(1, duration.nanoseconds().unwrap_or_default())`.
FinalTimestamp(timestamp, duration) ==
    AddU64(timestamp, Max(1, IF IsSome(duration) THEN duration ELSE 0))

\* Where render stops.  `fail` is the storage's failure, if any: fail.at names
\* the call that fails and, for "data_write", fail.chunk the number of events
\* written before the failing one.  A write to a sealed stream fails.
\* last_index_time taken from every buffer that has a timestamp.
LastIndexTimeOfAnyBuffer(wrote_index, timestamp) ==
    IF IsSome(timestamp) THEN timestamp ELSE last_index_time

\* `*last_index_time = timestamp`, after the index record was written.
LastIndexTime(wrote_index, timestamp) ==
    IF wrote_index THEN timestamp ELSE last_index_time

\* render with the result of the index append dropped instead of returned.
RenderStageIndexWriteUnchecked(buffer, fail, dec, events) ==
    LET sync_after == "SYNC_AFTER" \in buffer.flags
        failing_chunk == IF "data" \in sealed THEN 0 ELSE fail.chunk
    IN  IF dec.panic THEN "panic"
        ELSE IF dec.include /\ fail.at = "flush" THEN "flush_failed"
        ELSE IF (fail.at = "data_write" \/ "data" \in sealed)
                /\ failing_chunk < Len(events)
             THEN "data_failed"
        ELSE IF sync_after /\ fail.at = "sync_flush_data" THEN "sync_data_failed"
        ELSE IF sync_after /\ fail.at = "sync_flush_index" THEN "sync_index_failed"
        ELSE IF IsSome(buffer.timestamp) /\ overflow_checks
                /\ FinalTimestamp(buffer.timestamp, buffer.duration).overflow
             THEN "panic_final"
        ELSE "ok"

\* Where render stops: the `?` after each storage call returns its error.
RenderStage(buffer, fail, dec, events) ==
    LET sync_after == "SYNC_AFTER" \in buffer.flags
        failing_chunk == IF "data" \in sealed THEN 0 ELSE fail.chunk
    IN  IF dec.panic THEN "panic"
        ELSE IF dec.include /\ fail.at = "flush" THEN "flush_failed"
        ELSE IF dec.include /\ (fail.at = "index_write" \/ "index" \in sealed)
             THEN "index_failed"
        ELSE IF (fail.at = "data_write" \/ "data" \in sealed)
                /\ failing_chunk < Len(events)
             THEN "data_failed"
        ELSE IF sync_after /\ fail.at = "sync_flush_data" THEN "sync_data_failed"
        ELSE IF sync_after /\ fail.at = "sync_flush_index" THEN "sync_index_failed"
        ELSE IF IsSome(buffer.timestamp) /\ overflow_checks
                /\ FinalTimestamp(buffer.timestamp, buffer.duration).overflow
             THEN "panic_final"
        ELSE "ok"

\* The state match of render and stop with the Stopped arm never taken.
NotStartedNever == FALSE

\* `State::Stopped =>` in the state match of render and of stop.
NotStarted == state = "Stopped"

\* render(buffer).  buffer.timestamp is the canonical timestamp computed from
\* the pts, buffer.len the payload's length.
Render(buffer, fail) ==
    /\ ~panicked
    /\ ~stopping
    /\ UNCHANGED <<stopping, maintainerVars>>
    /\ IF NotStarted
       THEN /\ result' = [op |-> "render", res |-> "Err"]
            /\ UNCHANGED <<overflow_checks, settings, state, sessionVars,
                           retention_thread_handle, streamVars, created,
                           panicked, session, calls, decision>>
       ELSE LET timestamp == buffer.timestamp
                duration == buffer.duration
                payload == Payload(buffer.len)
                index_min_nanos == settings.index_min_nanos
                index_max_nanos == settings.index_max_nanos
                first_valid == IF ~IsSome(first_valid_time) THEN timestamp
                               ELSE first_valid_time
                writer_offset == writer_pos
                is_delta_unit == "DELTA_UNIT" \in buffer.flags
                random_access == ~is_delta_unit
                dec == IncludeInIndex(overflow_checks, timestamp, is_delta_unit,
                                      last_index_time, first_valid,
                                      index_min_nanos, index_max_nanos)
                include_in_index == dec.include
                discontinuity == Discontinuity(buffer.flags, buffers_written,
                                               include_in_index, last_index_time)
                events == Fragments(payload, 0, timestamp, include_in_index,
                                    random_access, discontinuity)
                stage == RenderStage(buffer, fail, dec, events)
                wrote_index == include_in_index
                               /\ stage \notin {"panic", "flush_failed",
                                                "index_failed"}
                written ==
                    IF stage \in {"panic", "flush_failed", "index_failed"}
                    THEN <<>>
                    ELSE IF stage = "data_failed"
                         THEN SubSeq(events, 1,
                                     IF "data" \in sealed THEN 0 ELSE fail.chunk)
                         ELSE events
                writer_offset_end == writer_offset + EventsSize(written)
                all_written == stage \in {"sync_data_failed", "sync_index_failed",
                                          "panic_final", "ok"}
                sync_after == "SYNC_AFTER" \in buffer.flags
                flushed == IF stage \in {"panic", "flush_failed"}
                           THEN data_flushed
                           ELSE RenderFlush(include_in_index)
                index_record == [timestamp |-> timestamp, offset |-> writer_offset,
                                 random_access |-> random_access,
                                 discontinuity |-> discontinuity,
                                 by |-> "render", session |-> session,
                                 call |-> calls + 1, flushed |-> flushed]
            IN  /\ calls' = calls + 1
                /\ first_valid_time' = first_valid
                /\ data_flushed' =
                      IF sync_after /\ stage \in {"sync_index_failed",
                                                  "panic_final", "ok"}
                      THEN writer_offset_end
                      ELSE flushed
                /\ index_stream' = IF wrote_index
                                   THEN Append(index_stream, index_record)
                                   ELSE index_stream
                /\ last_index_time' = LastIndexTime(wrote_index, timestamp)
                /\ data_stream' = data_stream
                                    \o Placed(written, writer_offset, calls + 1)
                /\ writer_pos' = writer_offset_end
                /\ buffers_written' = IF all_written THEN buffers_written + 1
                                      ELSE buffers_written
                /\ index_flushed' =
                      IF sync_after /\ stage \in {"panic_final", "ok"}
                      THEN Len(index_stream')
                      ELSE index_flushed
                /\ final_timestamp' =
                      IF stage = "ok" /\ IsSome(timestamp)
                      THEN FinalTimestamp(timestamp, duration).value
                      ELSE final_timestamp
                /\ final_offset' = IF stage = "ok" THEN writer_offset_end
                                   ELSE final_offset
                /\ panicked' = (stage \in {"panic", "panic_final"})
                /\ result' = [op |-> "render",
                              res |-> IF stage = "ok" THEN "Ok"
                                      ELSE IF stage \in {"panic", "panic_final"}
                                           THEN "Panic" ELSE "Err"]
                /\ decision' =
                      [outcome |-> IF dec.panic THEN "panic" ELSE "decided",
                       stage |-> stage,
                       call |-> calls + 1,
                       timestamp |-> timestamp,
                       flags |-> buffer.flags,
                       len |-> buffer.len,
                       last_index_time |-> last_index_time,
                       first_valid_time |-> first_valid,
                       index_min_nanos |-> index_min_nanos,
                       index_max_nanos |-> index_max_nanos,
                       buffers_written |-> buffers_written,
                       records_before |-> Len(SessionRenderRecords),
                       writer_offset |-> writer_offset,
                       data_flushed |-> data_flushed,
                       include_in_index |-> include_in_index,
                       discontinuity |-> discontinuity]
                /\ UNCHANGED <<overflow_checks, settings, state,
                               retention_thread_handle, sealed, created,
                               session>>

\* --------------------------------------------------------------------- stop
\* stop without its check of final_timestamp.
HasFinalRecordUnchecked == IsSome(final_offset)

\* Whether stop has a final index record to write.
HasFinalRecord == IsSome(final_offset) /\ IsSome(final_timestamp)

\* stop with the results of the two seals dropped instead of returned.
StopStageSealUnchecked(fail) ==
    IF fail = "flush" THEN "flush_failed"
    ELSE IF HasFinalRecord /\ (fail = "index_write" \/ "index" \in sealed)
         THEN "index_failed"
    ELSE IF fail = "index_flush" THEN "index_flush_failed"
    ELSE "ok"

\* Where stop stops; `fail` names the storage call that fails, or "none".
StopStage(fail) ==
    IF fail = "flush" THEN "flush_failed"
    ELSE IF HasFinalRecord /\ (fail = "index_write" \/ "index" \in sealed)
         THEN "index_failed"
    ELSE IF fail = "index_flush" THEN "index_flush_failed"
    ELSE IF settings.seal /\ fail = "seal_data" THEN "seal_data_failed"
    ELSE IF settings.seal /\ fail = "seal_index" THEN "seal_index_failed"
    ELSE "ok"

\* stop sealing the data stream only.
SealedDataOnly(stage) ==
    IF ~settings.seal
       \/ stage \in {"flush_failed", "index_failed", "index_flush_failed",
                     "seal_data_failed"}
    THEN sealed
    ELSE sealed \cup {"data"}

\* The streams sealed when stop returns: `if seal`, the data stream and then
\* the index stream, each seal behind a `?`.
Sealed(stage) ==
    IF ~settings.seal
       \/ stage \in {"flush_failed", "index_failed", "index_flush_failed",
                     "seal_data_failed"}
    THEN sealed
    ELSE IF stage = "seal_index_failed"
         THEN sealed \cup {"data"}
         ELSE sealed \cup {"data", "index"}

Stop(fail) ==
    /\ ~panicked
    /\ ~stopping
    /\ UNCHANGED <<maintainer, retention_policy, search_result, index_head,
                   data_head, truncation, cycle_time_offset, pairs_after_stop>>
    /\ IF NotStarted
       THEN /\ result' = [op |-> "stop", res |-> "Err"]
            /\ UNCHANGED <<overflow_checks, settings, state, sessionVars,
                           retention_thread_handle, streamVars, created,
                           panicked, session, calls, decision, stopping,
                           stop_sent>>
       ELSE LET stage == StopStage(fail)
                wrote_final == HasFinalRecord
                               /\ stage \notin {"flush_failed", "index_failed"}
                final_record == [timestamp |-> final_timestamp,
                                 offset |-> final_offset,
                                 random_access |-> FALSE,
                                 discontinuity |-> FALSE,
                                 by |-> "stop", session |-> session,
                                 call |-> 0, flushed |-> StopFlush]
            IN  /\ data_flushed' = IF stage = "flush_failed" THEN data_flushed
                                   ELSE StopFlush
                /\ index_stream' = IF wrote_final
                                   THEN Append(index_stream, final_record)
                                   ELSE index_stream
                /\ index_flushed' =
                      IF stage \in {"flush_failed", "index_failed",
                                    "index_flush_failed"}
                      THEN index_flushed
                      ELSE Len(index_stream')
                /\ sealed' = Sealed(stage)
                /\ IF stage = "ok" /\ retention_thread_handle
                   THEN \* send(()), then the call waits in join
                        /\ stop_sent' = TRUE
                        /\ stopping' = TRUE
                        /\ UNCHANGED <<state, sessionVars,
                                       retention_thread_handle, result>>
                   ELSE IF stage = "ok"
                   THEN /\ state' = "Stopped"
                        /\ first_valid_time' = NONE
                        /\ last_index_time' = NONE
                        /\ final_timestamp' = NONE
                        /\ final_offset' = NONE
                        /\ buffers_written' = 0
                        /\ retention_thread_handle' = FALSE
                        /\ result' = [op |-> "stop", res |-> "Ok"]
                        /\ UNCHANGED <<stopping, stop_sent>>
                   ELSE /\ result' = [op |-> "stop", res |-> "Err"]
                        /\ UNCHANGED <<state, sessionVars,
                                       retention_thread_handle, stopping,
                                       stop_sent>>
                /\ UNCHANGED <<overflow_checks, settings, writer_pos,
                               data_stream, created, panicked, session, calls,
                               decision>>

\* stop, after the thread has ended: join returns (its result is dropped,
\* so a thread that panicked is joined like one that broke out of the loop)
\* and the state becomes Stopped.
JoinedAtOnce == TRUE

\* join returning only for a thread that left its loop by the break.
JoinedWhenExited == maintainer = "exited"

Joined == maintainer \in {"exited", "panicked"}

StopJoin ==
    /\ stopping
    /\ Joined
    /\ stopping' = FALSE
    /\ state' = "Stopped"
    /\ first_valid_time' = NONE
    /\ last_index_time' = NONE
    /\ final_timestamp' = NONE
    /\ final_offset' = NONE
    /\ buffers_written' = 0
    /\ retention_thread_handle' = FALSE
    /\ result' = [op |-> "stop", res |-> "Ok"]
    /\ UNCHANGED <<overflow_checks, settings, streamVars, created, panicked,
                   session, calls, decision, maintainerVars>>

\* ------------------------------------------------------ RetentionMaintainer
\* The positions of the thread: "time" and "size" are before the search of
\* the step, "*_index" and "*_data" before the truncation of the index and
\* of the data stream, "recv" is in recv_timeout.
StepOf(position) ==
    IF position \in {"time", "time_index", "time_data"} THEN "time" ELSE "size"

\* The loop with an Err of a search unwrapped.
AfterStepPanics(step) == "panicked"

AfterStep(step) ==
    IF step = "time" /\ HasBytes(retention_policy) THEN "size" ELSE "recv"

Last(S) == CHOOSE i \in S : \A j \in S : j <= i

\* The index records a search reads: those not truncated, up to the tail
\* the reader sees.  Record i of the index is at index offset i - 1.
Searchable(visible) == {i \in 1..visible : i > index_head}

Found(i) ==
    [found |-> TRUE, index_offset |-> i - 1, offset |-> index_stream[i].offset]

\* search_timestamp_and_return_index_offset(timestamp, Before): the latest
\* record at or before the timestamp.
SearchTimestamp(timestamp, visible) ==
    LET before == {i \in Searchable(visible) :
                      index_stream[i].timestamp <= timestamp}
    IN  IF before = {} THEN NoResult ELSE Found(Last(before))

\* search_size_and_return_index_offset(bytes, Before): the latest record
\* that is at least `bytes` before the last one.
SearchSize(bytes, visible) ==
    LET records == Searchable(visible)
        before == {i \in records :
                      index_stream[i].offset + bytes
                         <= index_stream[Last(records)].offset}
    IN  IF before = {} THEN NoResult ELSE Found(Last(before))

MaintainerSearch(timestamp, visible) ==
    /\ maintainer \in {"time", "size"}
    /\ LET found == IF maintainer = "time"
                    THEN SearchTimestamp(timestamp, visible)
                    ELSE SearchSize(retention_policy.bytes, visible)
       IN  /\ search_result' = found
           /\ maintainer' = IF ~found.found THEN AfterStep(maintainer)
                            ELSE IF maintainer = "time" THEN "time_index"
                            ELSE "size_index"
    /\ cycle_time_offset' = IF maintainer = LoopTop(retention_policy)
                            THEN NONE ELSE cycle_time_offset
    /\ UNCHANGED <<retention_policy, stop_sent, index_head, data_head,
                   truncation, pairs_after_stop>>

\* truncate_data_before(offset) of a stream: the storage never gives back
\* what was truncated.
IndexTruncateAtStart(found) == 0

IndexTruncateAt(found) == found.index_offset

DataTruncateAtNext(found) == found.offset + 1

DataTruncateAt(found) == found.offset

Truncation(stream, offset, head) ==
    [stream |-> stream, step |-> StepOf(maintainer), offset |-> offset,
     head |-> head, writer_pos |-> writer_pos, state |-> state,
     time_offset |-> cycle_time_offset]

MaintainerTruncateIndex(ok) ==
    /\ maintainer \in {"time_index", "size_index"}
    /\ truncation' =
          Truncation("index", IndexTruncateAt(search_result), index_head)
    /\ IF ok
       THEN /\ index_head' = Max(index_head, IndexTruncateAt(search_result))
            /\ maintainer' = IF maintainer = "time_index" THEN "time_data"
                             ELSE "size_data"
       ELSE \* unwrap() of the Err
            /\ maintainer' = "panicked"
            /\ UNCHANGED index_head
    /\ UNCHANGED <<retention_policy, search_result, stop_sent, data_head,
                   cycle_time_offset, pairs_after_stop>>

MaintainerTruncateData(ok) ==
    /\ maintainer \in {"time_data", "size_data"}
    /\ truncation' =
          Truncation("data", DataTruncateAt(search_result), data_head)
    /\ pairs_after_stop' = pairs_after_stop + (IF stop_sent THEN 1 ELSE 0)
    /\ IF ok
       THEN /\ data_head' = Max(data_head, DataTruncateAt(search_result))
            /\ maintainer' = AfterStep(StepOf(maintainer))
            /\ cycle_time_offset' = IF maintainer = "time_data"
                                    THEN DataTruncateAt(search_result)
                                    ELSE cycle_time_offset
       ELSE /\ maintainer' = "panicked"
            /\ UNCHANGED <<data_head, cycle_time_offset>>
    /\ UNCHANGED <<retention_policy, search_result, stop_sent, index_head>>

\* recv_timeout: a message (or a dropped sender) ends the thread, a timeout
\* begins the next cycle.
StopReceivedNever == FALSE

StopReceived == stop_sent

MaintainerRecv ==
    /\ maintainer = "recv"
    /\ maintainer' = IF StopReceived THEN "exited"
                     ELSE LoopTop(retention_policy)
    /\ UNCHANGED <<retention_policy, search_result, stop_sent, index_head,
                   data_head, truncation, cycle_time_offset, pairs_after_stop>>

\* The thread sharing the element's state mutex: its panic poisons it.
MaintainerPoisons(timestamp, visible, ok) ==
    /\ \/ MaintainerSearch(timestamp, visible)
       \/ MaintainerTruncateIndex(ok)
       \/ MaintainerTruncateData(ok)
       \/ MaintainerRecv
    /\ panicked' = (panicked \/ maintainer' = "panicked")
    /\ UNCHANGED <<overflow_checks, settings, state, sessionVars,
                   retention_thread_handle, streamVars, created,
                   session, calls, decision, result, stopping>>

\* A step of the thread; the element's own state is not touched by it.
Maintainer(timestamp, visible, ok) ==
    /\ \/ MaintainerSearch(timestamp, visible)
       \/ MaintainerTruncateIndex(ok)
       \/ MaintainerTruncateData(ok)
       \/ MaintainerRecv
    /\ UNCHANGED <<overflow_checks, settings, state, sessionVars,
                   retention_thread_handle, streamVars, created, panicked,
                   session, calls, decision, result, stopping>>

\* ------------------------------------------------------------ specification
NoFail == [at |-> "none", chunk |-> 0]

\* An interval a property is set to: a small one, or infinity (any value
\* beyond the u64 range).
Intervals == 0..MaxInterval \cup {U64Max + 1}

Timestamps == {NONE} \cup 0..MaxTime

Durations == {NONE, MaxDuration}

\* Spec: the index decisions of one session.  The element is configured,
\* then started, fed buffers and stopped, with the storage never failing;
\* buffers differ in timestamp, duration and flags.
Properties ==
    [name : {"stream"}, value : {TRUE}]
      \cup [name : {"index-min-sec", "index-max-sec"}, value : Intervals]

FlagSets == {{}, {"DELTA_UNIT"}, {"DISCONT"}, {"DELTA_UNIT", "RESYNC"}}

Buffers ==
    [timestamp : Timestamps, duration : Durations, flags : FlagSets,
     len : {1}]

Configure == \E p \in Properties :
    /\ state = "Stopped" /\ session = 0 /\ SetProperty(p.name, p.value)
    /\ UNCHANGED <<rendered, last_stage, last_fail, lockVars>>

DoStart ==
    state = "Stopped" /\ session = 0 /\ Start("none") /\ UNCHANGED <<rendered, last_stage, last_fail, lockVars>>

DoRender == \E buffer \in Buffers :
    calls < MaxCalls /\ Render(buffer, NoFail) /\ UNCHANGED <<rendered, last_stage, last_fail, lockVars>>

DoStop == Stop("none") /\ UNCHANGED <<rendered, last_stage, last_fail, lockVars>>

Next == Configure \/ DoStart \/ DoRender \/ DoStop

Spec == Init /\ [][Next]_vars

\* SpecWrite: the writes of one session.  The storage may fail any call;
\* buffers are random-access and differ in payload length, in having a
\* timestamp, and in the SYNC_AFTER flag; the intervals keep their defaults.
WriteBuffers ==
    [timestamp : {NONE, 0}, duration : {NONE},
     flags : {{}, {"SYNC_AFTER"}},
     len : {0, 1, MaxPayloadLen}]

RenderFails ==
    {NoFail}
      \cup [at : {"flush", "index_write", "sync_flush_data", "sync_flush_index"},
            chunk : {0}]
      \cup [at : {"data_write"}, chunk : {0, 1}]

StopFails == {"none", "flush", "index_write", "index_flush"}

ConfigureStream ==
    /\ state = "Stopped" /\ session = 0 /\ SetProperty("stream", TRUE)
    /\ UNCHANGED <<rendered, last_stage, last_fail, lockVars>>

\* The failure is of a call render makes for this buffer: a flush or an
\* index write only for a buffer with a timestamp, the write of a chunk the
\* payload has, the trailing flushes only under SYNC_AFTER.
FailsACall(buffer, fail) ==
    \/ fail = NoFail
    \/ fail.at \in {"flush", "index_write"} /\ IsSome(buffer.timestamp)
    \/ fail.at = "data_write" /\ fail.chunk * MaxPayloadSize < buffer.len
    \/ fail.at \in {"sync_flush_data", "sync_flush_index"}
          /\ "SYNC_AFTER" \in buffer.flags

RenderOrFail == \E buffer \in WriteBuffers, fail \in RenderFails :
    /\ calls < MaxCalls /\ FailsACall(buffer, fail) /\ Render(buffer, fail)
    /\ UNCHANGED <<rendered, last_stage, last_fail, lockVars>>

FinalRecords == SelectSeq(index_stream, LAMBDA r : r.by = "stop")

StopOrFail == \E fail \in StopFails :
    Len(FinalRecords) < MaxFinalRecords /\ Stop(fail) /\ UNCHANGED <<rendered, last_stage, last_fail, lockVars>>

NextWrite == ConfigureStream \/ DoStart \/ RenderOrFail \/ StopOrFail

SpecWrite == Init /\ [][NextWrite]_vars

\* SpecFinal: what stop writes at the end of one session.  Buffers are
\* random-access and differ in timestamp, duration and payload length; the
\* storage may fail the write of the second chunk of a payload, and the
\* calls of stop.  Every render call made in Started is logged: the
\* buffer's timestamp and duration, what render returned and the position
\* of the data writer when it returned.
FinalBuffers ==
    [timestamp : {NONE, 0, MaxTime}, duration : Durations, flags : {{}},
     len : {0, MaxPayloadLen}]

FinalRenderFails == {NoFail, [at |-> "data_write", chunk |-> 1]}

RenderLogged == \E buffer \in FinalBuffers, fail \in FinalRenderFails :
    /\ calls < MaxCalls /\ FailsACall(buffer, fail) /\ Render(buffer, fail)
    /\ rendered' =
          IF state = "Started"
          THEN Append(rendered, [session |-> session,
                                 timestamp |-> buffer.timestamp,
                                 duration |-> buffer.duration,
                                 res |-> result'.res, end |-> writer_pos'])
          ELSE rendered
    /\ UNCHANGED <<last_stage, last_fail, lockVars>>

NextFinal == ConfigureStream \/ DoStart \/ RenderLogged \/ StopOrFail

SpecFinal == Init /\ [][NextFinal]_vars

\* SpecRetention: one session with a retention policy.  The policy is set
\* before start; buffers are random-access with a timestamp and a payload
\* of one chunk, and the writes of the element never fail.  The maintainer
\* thread runs beside render and stop: its clock gives any cutoff, its
\* reader sees the index up to any tail from the flushed one on, and the
\* storage may fail a truncation.
RetentionProperties ==
    [name : {"stream"}, value : {TRUE}]
      \cup [name : {"retention-type"}, value : {"Days", "Bytes", "DaysAndBytes"}]
      \cup [name : {"retention-days"}, value : {1}]
      \cup [name : {"retention-bytes"}, value : {0, MaxBytes}]

RetentionBuffers ==
    [timestamp : {0, MaxTime}, duration : {NONE}, flags : {{}}, len : {1}]

Cutoffs == {0, MaxTime + 1}

ConfigureRetention == \E p \in RetentionProperties :
    /\ state = "Stopped" /\ session = 0 /\ SetProperty(p.name, p.value)
    /\ UNCHANGED <<rendered, last_stage, last_fail, lockVars>>

RenderRetained == \E buffer \in RetentionBuffers :
    calls < MaxCalls /\ Render(buffer, NoFail) /\ UNCHANGED <<rendered, last_stage, last_fail, lockVars>>

DoStopJoin == StopJoin /\ UNCHANGED <<rendered, last_stage, last_fail, lockVars>>

MaintainerSearches ==
    \E timestamp \in Cutoffs, visible \in index_flushed..Len(index_stream) :
        /\ maintainer \in {"time", "size"}
        /\ Maintainer(timestamp, visible, TRUE) /\ UNCHANGED <<rendered, last_stage, last_fail, lockVars>>

MaintainerTruncates == \E ok \in BOOLEAN :
    /\ maintainer \in {"time_index", "time_data", "size_index", "size_data"}
    /\ Maintainer(0, 0, ok) /\ UNCHANGED <<rendered, last_stage, last_fail, lockVars>>

MaintainerWaits ==
    maintainer = "recv" /\ Maintainer(0, 0, TRUE) /\ UNCHANGED <<rendered, last_stage, last_fail, lockVars>>

NextRetention ==
    \/ ConfigureRetention \/ DoStart \/ RenderRetained \/ DoStop
    \/ DoStopJoin \/ MaintainerSearches \/ MaintainerTruncates
    \/ MaintainerWaits

SpecRetention == Init /\ [][NextRetention]_vars

\* SpecRetentionLive: SpecRetention with a thread that is scheduled and
\* whose storage calls return: a step of the maintainer that stays enabled
\* is eventually taken.
SpecRetentionLive ==
    /\ SpecRetention
    /\ WF_vars(MaintainerSearches)
    /\ WF_vars(MaintainerTruncates)
    /\ WF_vars(MaintainerWaits)

\* SpecInterleave: SpecRetention with and without a maintainer (the policy
\* may be None), and with every buffer given to render logged.
InterleaveProperties ==
    RetentionProperties \cup [name : {"retention-type"}, value : {"None"}]

ConfigureInterleave == \E p \in InterleaveProperties :
    /\ state = "Stopped" /\ session = 0 /\ SetProperty(p.name, p.value)
    /\ UNCHANGED <<rendered, last_stage, last_fail, lockVars>>

RenderInterleaved == \E buffer \in RetentionBuffers :
    /\ calls < MaxCalls /\ Render(buffer, NoFail)
    /\ rendered' =
          IF state = "Started"
          THEN Append(rendered, [session |-> session,
                                 timestamp |-> buffer.timestamp,
                                 duration |-> buffer.duration,
                                 res |-> result'.res, end |-> writer_pos'])
          ELSE rendered
    /\ UNCHANGED <<last_stage, last_fail, lockVars>>

NextInterleave ==
    \/ ConfigureInterleave \/ DoStart \/ RenderInterleaved \/ DoStop
    \/ DoStopJoin \/ MaintainerSearches \/ MaintainerTruncates
    \/ MaintainerWaits

SpecInterleave == Init /\ [][NextInterleave]_vars

\* SpecReconfigure: the interval properties set at any time.  set_property
\* takes the settings lock only, so it runs in Stopped and in Started
\* alike, between any two calls of the element.
IntervalProperties ==
    [name : {"index-min-sec", "index-max-sec"}, value : 0..MaxInterval + 1]

ReconfigureBuffers ==
    [timestamp : {0, MaxTime}, duration : {NONE},
     flags : {{}, {"DELTA_UNIT"}}, len : {1}]

SetInterval == \E p \in IntervalProperties :
    /\ ~stopping /\ SetProperty(p.name, p.value)
    /\ UNCHANGED <<rendered, last_stage, last_fail, lockVars>>

RenderReconfigured == \E buffer \in ReconfigureBuffers :
    /\ calls < MaxCalls /\ Render(buffer, NoFail)
    /\ UNCHANGED <<rendered, last_stage, last_fail, lockVars>>

NextReconfigure ==
    ConfigureStream \/ SetInterval \/ DoStart \/ RenderReconfigured \/ DoStop

SpecReconfigure == Init /\ [][NextReconfigure]_vars

\* SpecStart: start under every configuration.  Any property is set while
\* the element is Stopped, the controller may fail any call of start, and
\* a session that started is stopped again (no buffer is rendered), so
\* that a later start meets what an earlier session left.  The stage at
\* which each start or stop call stopped is logged.
StartProperties ==
    [name : {"stream", "controller", "allow-create-scope"}, value : BOOLEAN]
      \cup [name : {"index-min-sec", "index-max-sec"}, value : 0..MaxInterval]
      \cup [name : {"retention-type"},
            value : {"None", "Days", "Bytes", "DaysAndBytes"}]
      \cup [name : {"retention-days"}, value : {1}]
      \cup [name : {"retention-bytes"}, value : {0}]

StartFails ==
    {"none", "client_config", "create_scope", "create_data_stream",
     "create_index_stream"}

ConfigureStart == \E p \in StartProperties :
    /\ state = "Stopped" /\ SetProperty(p.name, p.value)
    /\ UNCHANGED <<rendered, last_stage, last_fail, lockVars>>

StartOrFail == \E fail \in StartFails :
    /\ state = "Stopped" /\ session < MaxSessions
    /\ Start(fail)
    /\ last_stage' = StartStage(fail)
    /\ last_fail' = fail
    /\ UNCHANGED <<rendered, lockVars>>

StopLogged ==
    /\ state = "Started"
    /\ Stop("none")
    /\ last_stage' = StopStage("none")
    /\ last_fail' = "none"
    /\ UNCHANGED <<rendered, lockVars>>

NextStart ==
    \/ ConfigureStart \/ StartOrFail \/ StopLogged \/ DoStopJoin
    \/ MaintainerSearches \/ MaintainerWaits

SpecStart == Init /\ [][NextStart]_vars

\* SpecSeal: the calls of one session that fail, and its end.  seal is
\* set or not before start; buffers are random-access with a timestamp and
\* a payload of two events, and differ in SYNC_AFTER; the
\* storage may fail any call of render and of stop, and a stop that failed
\* is called again.  The failure the storage had for a call and the stage
\* at which the call stopped are logged.
SealProperties == [name : {"stream"}, value : {TRUE}] \cup [name : {"seal"}, value : BOOLEAN]

SealBuffers ==
    [timestamp : {0}, duration : {NONE}, flags : {{}, {"SYNC_AFTER"}},
     len : {MaxPayloadLen}]

SealStopFails == StopFails \cup {"seal_data", "seal_index"}

ConfigureSeal == \E p \in SealProperties :
    /\ state = "Stopped" /\ session = 0 /\ SetProperty(p.name, p.value)
    /\ UNCHANGED <<rendered, last_stage, last_fail, lockVars>>

RenderSealed == \E buffer \in SealBuffers, fail \in RenderFails :
    /\ calls < MaxCalls /\ FailsACall(buffer, fail) /\ Render(buffer, fail)
    /\ last_stage' = IF NotStarted THEN "not_started" ELSE decision'.stage
    /\ last_fail' = fail
    /\ UNCHANGED <<rendered, lockVars>>

StopSealed == \E fail \in SealStopFails :
    /\ Len(FinalRecords) < MaxFinalRecords
    /\ fail \in {"seal_data", "seal_index"} => settings.seal
    /\ Stop(fail)
    /\ last_stage' = IF NotStarted THEN "not_started" ELSE StopStage(fail)
    /\ last_fail' = fail
    /\ UNCHANGED <<rendered, lockVars>>

NextSeal == ConfigureSeal \/ DoStart \/ RenderSealed \/ StopSealed

SpecSeal == Init /\ [][NextSeal]_vars

\* SpecRetentionFail: a session with a Days policy whose data writes may
\* fail.  Buffers are random-access with a timestamp and a payload of two
\* events; the storage may fail the write of either event, and render is
\* called again after a failure, once more than in the other
\* specifications.
DaysProperties ==
    [name : {"stream"}, value : {TRUE}]
      \cup [name : {"retention-type"}, value : {"Days"}]
      \cup [name : {"retention-days"}, value : {1}]

FailingBuffers ==
    [timestamp : {0}, duration : {NONE}, flags : {{}}, len : {MaxPayloadLen}]

DataWriteFails == {NoFail} \cup [at : {"data_write"}, chunk : {0, 1}]

ConfigureDays == \E p \in DaysProperties :
    /\ state = "Stopped" /\ session = 0 /\ SetProperty(p.name, p.value)
    /\ UNCHANGED <<rendered, last_stage, last_fail, lockVars>>

RenderRetainedOrFail == \E buffer \in FailingBuffers, fail \in DataWriteFails :
    /\ calls < MaxCalls + 1 /\ Render(buffer, fail)
    /\ UNCHANGED <<rendered, last_stage, last_fail, lockVars>>

NextRetentionFail ==
    \/ ConfigureDays \/ DoStart \/ RenderRetainedOrFail \/ DoStop
    \/ DoStopJoin \/ MaintainerSearches \/ MaintainerTruncates
    \/ MaintainerWaits

SpecRetentionFail == Init /\ [][NextRetentionFail]_vars

\* SpecStopFail: a session with a Days policy whose stop may fail.  seal
\* is set or not before start; one buffer is rendered, random-access with
\* a timestamp and a payload of one event, without failure; the storage may
\* fail any call of stop, and a stop that failed is called again.  The
\* maintainer runs beside them as in SpecRetention.  The failure the
\* storage had for a stop and the stage at which the stop ended are
\* logged.
StopFailProperties == DaysProperties \cup [name : {"seal"}, value : {TRUE}]

StopFailBuffers ==
    [timestamp : {0}, duration : {NONE}, flags : {{}}, len : {1}]

ConfigureStopFail == \E p \in StopFailProperties :
    /\ state = "Stopped" /\ session = 0 /\ SetProperty(p.name, p.value)
    /\ UNCHANGED <<rendered, last_stage, last_fail, lockVars>>

RenderBeforeStop == \E buffer \in StopFailBuffers :
    /\ calls = 0 /\ Render(buffer, NoFail)
    /\ UNCHANGED <<rendered, last_stage, last_fail, lockVars>>

StopRetainedOrFail == \E fail \in SealStopFails :
    /\ Len(FinalRecords) < MaxFinalRecords
    /\ fail \in {"seal_data", "seal_index"} => settings.seal
    /\ Stop(fail)
    /\ last_stage' = IF NotStarted THEN "not_started" ELSE StopStage(fail)
    /\ last_fail' = fail
    /\ UNCHANGED <<rendered, lockVars>>

NextStopFail ==
    \/ ConfigureStopFail \/ DoStart \/ RenderBeforeStop \/ StopRetainedOrFail
    \/ DoStopJoin \/ MaintainerSearches \/ MaintainerTruncates
    \/ MaintainerWaits

SpecStopFail == Init /\ [][NextStopFail]_vars

\* SpecStopLive: SpecRetentionLive with a stop that goes on once join
\* has returned.
SpecStopLive == SpecRetentionLive /\ WF_vars(DoStopJoin)

\* SpecLocks: the handlers called from four threads at once, one thread
\* per handler, with the two mutexes of the element.  A thread that wants
\* a mutex another thread holds waits; the body of a handler runs where
\* the handler holds what it reads and writes.  start and stop do not
\* fail, render is given one kind of buffer, the element is started
\* once, and the maintainer runs beside them, taking no mutex.
elementVars ==
    <<overflow_checks, settings, state, sessionVars, retention_thread_handle,
      streamVars, created, panicked, session, calls, decision, result,
      stopping, maintainerVars, rendered, last_stage, last_fail>>

LockProperties ==
    [name : {"stream"}, value : {TRUE}]
      \cup [name : {"retention-type"}, value : {"None", "Days"}]
      \cup [name : {"retention-days"}, value : {1}]

\* stop holding the settings guard until it returns.
StopHoldsSettingsToTheEnd == TRUE

\* Whether stop still holds the settings mutex when it locks state: the
\* guard lives in the block that reads `seal` and is dropped at its end.
StopHoldsSettings == FALSE

\* The first mutex a handler locks.
FirstLock(t) ==
    IF t \in {"start", "render"} THEN "lock_state" ELSE "lock_settings"

\* A handler is called.
Call(t) ==
    /\ pc[t] = "idle"
    /\ t = "start" => (state = "Stopped" /\ session = 0)
    /\ t = "render" => calls < MaxCalls
    /\ pc' = [pc EXCEPT ![t] = FirstLock(t)]
    /\ UNCHANGED <<state_lock, settings_lock, elementVars>>

\* `self.state.lock()` of start, render and stop.
LockState(t) ==
    /\ pc[t] = "lock_state"
    /\ state_lock = "free"
    /\ state_lock' = t
    /\ pc' = [pc EXCEPT ![t] = IF t = "start" THEN "lock_settings"
                               ELSE IF t = "render" THEN "match"
                               ELSE "body"]
    /\ UNCHANGED <<settings_lock, elementVars>>

\* `self.settings.lock()` of every handler.
LockSettings(t) ==
    /\ pc[t] = "lock_settings"
    /\ settings_lock = "free"
    /\ settings_lock' = t
    /\ pc' = [pc EXCEPT ![t] = IF t = "stop" THEN "unlock_settings"
                               ELSE "body"]
    /\ UNCHANGED <<state_lock, elementVars>>

\* start: the body under both guards, which are dropped at the return.
StartLocked ==
    /\ pc["start"] = "body"
    /\ Start("none")
    /\ pc' = [pc EXCEPT !["start"] = "idle"]
    /\ state_lock' = "free"
    /\ settings_lock' = "free"
    /\ UNCHANGED <<rendered, last_stage, last_fail>>

\* render: the state match under the state guard; in Stopped it returns.
RenderMatch == \E buffer \in StopFailBuffers :
    /\ pc["render"] = "match"
    /\ IF NotStarted
       THEN /\ Render(buffer, NoFail)
            /\ pc' = [pc EXCEPT !["render"] = "idle"]
            /\ state_lock' = "free"
            /\ UNCHANGED <<settings_lock, rendered, last_stage, last_fail>>
       ELSE /\ pc' = [pc EXCEPT !["render"] = "lock_settings"]
            /\ UNCHANGED <<state_lock, settings_lock, elementVars>>

\* render: the settings read and their guard dropped, then the rest of
\* the body under the state guard.
RenderLocked == \E buffer \in StopFailBuffers :
    /\ pc["render"] = "body"
    /\ Render(buffer, NoFail)
    /\ pc' = [pc EXCEPT !["render"] = "unlock_state"]
    /\ settings_lock' = "free"
    /\ UNCHANGED <<state_lock, rendered, last_stage, last_fail>>

RenderReturns ==
    /\ pc["render"] = "unlock_state"
    /\ pc' = [pc EXCEPT !["render"] = "idle"]
    /\ state_lock' = "free"
    /\ UNCHANGED <<settings_lock, elementVars>>

\* stop: `seal` read, the end of the block.
StopUnlocksSettings ==
    /\ pc["stop"] = "unlock_settings"
    /\ pc' = [pc EXCEPT !["stop"] = "lock_state"]
    /\ settings_lock' = IF StopHoldsSettings THEN "stop" ELSE "free"
    /\ UNCHANGED <<state_lock, elementVars>>

\* stop: the body under the state guard; with a maintainer it stays in
\* join, the guard held.
StopLocked ==
    /\ pc["stop"] = "body"
    /\ Stop("none")
    /\ IF stopping'
       THEN /\ pc' = [pc EXCEPT !["stop"] = "join"]
            /\ UNCHANGED <<state_lock, settings_lock>>
       ELSE /\ pc' = [pc EXCEPT !["stop"] = "idle"]
            /\ state_lock' = "free"
            /\ settings_lock' =
                  IF settings_lock = "stop" THEN "free" ELSE settings_lock
    /\ UNCHANGED <<rendered, last_stage, last_fail>>

StopJoinLocked ==
    /\ pc["stop"] = "join"
    /\ StopJoin
    /\ pc' = [pc EXCEPT !["stop"] = "idle"]
    /\ state_lock' = "free"
    /\ settings_lock' = IF settings_lock = "stop" THEN "free" ELSE settings_lock
    /\ UNCHANGED <<rendered, last_stage, last_fail>>

\* set_property: the assignment under the settings guard.
SetPropertyLocked == \E p \in LockProperties :
    /\ pc["set_property"] = "body"
    /\ SetProperty(p.name, p.value)
    /\ pc' = [pc EXCEPT !["set_property"] = "idle"]
    /\ settings_lock' = "free"
    /\ UNCHANGED <<state_lock, rendered, last_stage, last_fail>>

Calls == \E t \in Threads : Call(t)

LocksState == \E t \in Threads : LockState(t)

LocksSettings == \E t \in Threads : LockSettings(t)

\* The steps of handlers that were called, and of the maintainer.
Progress ==
    \/ LocksState \/ LocksSettings \/ StartLocked \/ RenderMatch
    \/ RenderLocked \/ RenderReturns \/ StopUnlocksSettings \/ StopLocked
    \/ StopJoinLocked \/ SetPropertyLocked \/ MaintainerSearches
    \/ MaintainerTruncates \/ MaintainerWaits

NextLocks == Calls \/ Progress

SpecLocks == Init /\ [][NextLocks]_vars

\* =================================================================== claims
\* What the claims read from the two streams.

\* The render call `call` appended an index record.
Indexed(call) ==
    \E i \in 1..Len(index_stream) :
        index_stream[i].by = "render" /\ index_stream[i].call = call

\* The events render call `call` appended, in order.
EventsOf(call) == SelectSeq(data_stream, LAMBDA e : e.call = call)

\* The first event of each buffer of the current session, in order (the
\* first chunk of a payload starts with the payload's byte 1).
SessionBuffers ==
    SelectSeq(data_stream,
              LAMBDA e : e.session = session /\ e.payload # <<>>
                         /\ e.payload[1] = 1)

\* The records of the current session, in append order.
SessionRecords == SelectSeq(index_stream, LAMBDA r : r.session = session)

\* The last render took its decision for a buffer with a valid timestamp.
Decided == decision.outcome # "none" /\ IsSome(decision.timestamp)

\* C1: in render, for a buffer with a valid timestamp when an index record
\* was already written in the session with timestamp t, a delta buffer is
\* indexed iff timestamp > t + index_max_interval and a random-access buffer
\* iff timestamp >= t + index_min_interval.
C1_IndexedAfterPriorRecord ==
    (Decided /\ IsSome(decision.last_index_time)) =>
        (Indexed(decision.call)
           <=> IF "DELTA_UNIT" \in decision.flags
               THEN decision.timestamp
                      > decision.last_index_time + decision.index_max_nanos
               ELSE decision.timestamp
                      >= decision.last_index_time + decision.index_min_nanos)

\* C2: in render, for a buffer with a valid timestamp when no index record
\* was written yet in the session, a random-access buffer is always indexed
\* and a delta buffer is indexed iff
\* timestamp > first_valid_time + index_max_interval.
C2_IndexedWithoutPriorRecord ==
    (Decided /\ decision.records_before = 0) =>
        (Indexed(decision.call)
           <=> IF "DELTA_UNIT" \in decision.flags
               THEN decision.timestamp
                      > decision.first_valid_time + decision.index_max_nanos
               ELSE TRUE)

\* Concatenation of the payloads of a sequence of events.
RECURSIVE Concat(_)
Concat(events) ==
    IF events = <<>> THEN <<>> ELSE events[1].payload \o Concat(Tail(events))

\* C3: a buffer whose timestamp is none is never indexed, whatever its flags
\* and the session state, while its payload is still appended to the data
\* stream; no record with a none timestamp is ever in the index stream,
\* whether written by render or by stop.
C3_NoneTimestampNeverIndexed ==
    /\ \A i \in 1..Len(index_stream) : IsSome(index_stream[i].timestamp)
    /\ (decision.outcome # "none" /\ ~IsSome(decision.timestamp)) =>
          /\ ~decision.include_in_index
          /\ ~Indexed(decision.call)
          /\ decision.stage = "ok" =>
                Concat(EventsOf(decision.call)) = Payload(decision.len)

\* C3's case: a session that rendered a random-access buffer without a
\* timestamp and one with a timestamp, and was stopped, its final record
\* written.
C3_Witness ==
    /\ result = [op |-> "stop", res |-> "Ok"]
    /\ \E i \in 1..Len(data_stream) :
          ~IsSome(data_stream[i].timestamp) /\ data_stream[i].random_access
    /\ \E i \in 1..Len(index_stream) : index_stream[i].by = "stop"

\* C7: the timestamps of the records a session appends to the index stream
\* are non-decreasing in append order, the final record of stop included.
C7_IndexTimestampsNonDecreasing ==
    \A i, j \in 1..Len(SessionRecords) :
        i < j => SessionRecords[i].timestamp <= SessionRecords[j].timestamp

\* The last buffer before buffer i of the session that was indexed, or 0.
PrevIndexed(i) ==
    LET earlier == {j \in 1..(i - 1) : SessionBuffers[j].include_in_index}
    IN  IF earlier = {} THEN 0 ELSE CHOOSE j \in earlier : \A k \in earlier : k <= j

\* Number of index records render wrote for the buffer of event e.
RecordsFor(e) ==
    Cardinality({i \in 1..Len(index_stream) :
                    index_stream[i].by = "render" /\ index_stream[i].call = e.call})

\* C8: for a sequence of random-access buffers with strictly increasing
\* valid timestamps, a buffer is indexed, exactly once, when the time since
\* the previously written index record has reached index_min_interval, and
\* is not indexed otherwise.
C8_KeyFramesAtLeastMinApart ==
    LET b == SessionBuffers
    IN  (/\ \A i \in 1..Len(b) : b[i].random_access /\ IsSome(b[i].timestamp)
         /\ \A i, j \in 1..Len(b) : i < j => b[i].timestamp < b[j].timestamp)
        => \A i \in 1..Len(b) :
              /\ b[i].include_in_index
                   <=> \/ PrevIndexed(i) = 0
                       \/ b[i].timestamp - b[PrevIndexed(i)].timestamp
                            >= settings.index_min_nanos
              /\ RecordsFor(b[i]) = IF b[i].include_in_index THEN 1 ELSE 0

\* C9: for a sequence of delta-only buffers with valid timestamps, a buffer
\* is indexed, exactly once, when its timestamp exceeds the last index time
\* (the first valid timestamp when no record was written yet) by more than
\* index_max_interval, and is not indexed otherwise.
C9_DeltaFramesForcedAfterMax ==
    LET b == SessionBuffers
    IN  (\A i \in 1..Len(b) : ~b[i].random_access /\ IsSome(b[i].timestamp))
        => \A i \in 1..Len(b) :
              LET base == IF PrevIndexed(i) = 0 THEN b[1].timestamp
                          ELSE b[PrevIndexed(i)].timestamp
              IN  /\ b[i].include_in_index
                       <=> b[i].timestamp > base + settings.index_max_nanos
                  /\ RecordsFor(b[i]) = IF b[i].include_in_index THEN 1 ELSE 0

\* C10: the discontinuity flag render computes for a buffer is true iff the
\* buffer is flagged DISCONT or RESYNC, or no buffer was written yet in the
\* session (buffers_written = 0), or the buffer is being indexed and no index
\* record was written yet in the session.
C10_DiscontinuityPredicate ==
    (decision.outcome = "decided" /\ decision.stage = "ok"
       /\ EventsOf(decision.call) # <<>>) =>
        (EventsOf(decision.call)[1].discontinuity
           <=> \/ "DISCONT" \in decision.flags
               \/ "RESYNC" \in decision.flags
               \/ decision.buffers_written = 0
               \/ (Indexed(decision.call) /\ decision.records_before = 0))

\* C10's case: a later buffer of a session, not flagged, is the first one
\* indexed, and so a discontinuity.
C10_Witness ==
    /\ decision.outcome = "decided" /\ decision.stage = "ok"
    /\ decision.buffers_written > 0
    /\ decision.flags \cap {"DISCONT", "RESYNC"} = {}
    /\ decision.records_before = 0
    /\ Indexed(decision.call)
    /\ EventsOf(decision.call)[1].discontinuity

\* C4: whenever an index record is appended, by render or by stop, every
\* data-stream byte below the record's data_offset has already been
\* flushed: the flush comes after the offset is captured and before the
\* record is appended.
C4_FlushedBeforeIndexRecord ==
    \A i \in 1..Len(index_stream) :
        index_stream[i].offset <= index_stream[i].flushed

\* C4's case: render indexed a buffer while earlier data was still
\* unflushed, and stop then wrote the final record.
C4_Witness ==
    /\ decision.outcome = "decided"
    /\ Indexed(decision.call)
    /\ decision.data_flushed < decision.writer_offset
    /\ \E i \in 1..Len(index_stream) : index_stream[i].by = "stop"

\* C5: for every index record appended by render, the data stream holds,
\* exactly at the record's data_offset, the first event of the same buffer,
\* with the same timestamp, include_in_index = true and the same
\* random_access and discontinuity flags.
C5_IndexRecordMatchesEvent ==
    \A i \in 1..Len(index_stream) :
        index_stream[i].by = "render" =>
            \E k \in 1..Len(data_stream) :
                /\ data_stream[k].offset = index_stream[i].offset
                /\ data_stream[k].call = index_stream[i].call
                /\ data_stream[k] = EventsOf(index_stream[i].call)[1]
                /\ data_stream[k].timestamp = index_stream[i].timestamp
                /\ data_stream[k].include_in_index
                /\ data_stream[k].random_access = index_stream[i].random_access
                /\ data_stream[k].discontinuity = index_stream[i].discontinuity

\* C6: the records a session appends to the index stream, the final record
\* of stop included, have strictly increasing data_offset.
C6_IndexOffsetsStrictlyIncreasing ==
    \A i \in 1..(Len(SessionRecords) - 1) :
        SessionRecords[i].offset < SessionRecords[i + 1].offset

\* The events session s appended to the data stream, in order.
SessionEvents(s) == SelectSeq(data_stream, LAMBDA e : e.session = s)

\* C11: in every session the first event the session appends to the data
\* stream carries discontinuity = true, for every sequence of buffers and
\* flags and whatever was written before.
C11_FirstWriteIsDiscontinuity ==
    \A s \in 1..session :
        SessionEvents(s) # <<>> => SessionEvents(s)[1].discontinuity

\* C12: a payload of size k * max_unit + r with 0 < r < max_unit is written
\* as exactly k + 1 events of at most max_unit bytes each, whose payloads
\* concatenated in write order are the payload; the first event carries the
\* buffer's include_in_index, random_access and discontinuity and every
\* later event carries all three as false.
C12_FragmentationRoundTrip ==
    (decision.outcome = "decided" /\ decision.stage = "ok"
       /\ decision.len % MaxPayloadSize # 0) =>
        LET ev == EventsOf(decision.call)
            k == decision.len \div MaxPayloadSize
        IN  /\ Len(ev) = k + 1
            /\ \A i \in 1..Len(ev) : Len(ev[i].payload) <= MaxPayloadSize
            /\ Concat(ev) = Payload(decision.len)
            /\ ev[1].include_in_index = decision.include_in_index
            /\ ev[1].random_access = ("DELTA_UNIT" \notin decision.flags)
            /\ ev[1].discontinuity = decision.discontinuity
            /\ \A i \in 2..Len(ev) :
                  /\ ~ev[i].include_in_index
                  /\ ~ev[i].random_access
                  /\ ~ev[i].discontinuity

\* C12's case: an indexed random-access buffer, a discontinuity, whose
\* payload takes more than one event, the last one shorter than max_unit.
C12_Witness ==
    /\ decision.outcome = "decided" /\ decision.stage = "ok"
    /\ decision.len > MaxPayloadSize
    /\ decision.len % MaxPayloadSize # 0
    /\ decision.include_in_index /\ decision.discontinuity
    /\ Len(EventsOf(decision.call)) > 1

\* C13: for a payload of at most max_unit bytes, the empty payload included,
\* render appends exactly one event, carrying the buffer's timestamp,
\* include_in_index, random_access and discontinuity.
C13_SmallPayloadIsOneEvent ==
    (decision.outcome = "decided" /\ decision.stage = "ok"
       /\ decision.len <= MaxPayloadSize) =>
        LET ev == EventsOf(decision.call)
        IN  /\ Len(ev) = 1
            /\ ev[1].payload = Payload(decision.len)
            /\ ev[1].timestamp = decision.timestamp
            /\ ev[1].include_in_index = decision.include_in_index
            /\ ev[1].random_access = ("DELTA_UNIT" \notin decision.flags)
            /\ ev[1].discontinuity = decision.discontinuity

\* C20: render and stop called in Stopped return an error, append nothing to
\* either stream, flush and seal nothing, and leave the state Stopped.
C20_StoppedRejectsRenderAndStop ==
    [][(state = "Stopped" /\ result' # result
          /\ result'.op \in {"render", "stop"})
        => /\ result'.res = "Err"
           /\ state' = "Stopped"
           /\ UNCHANGED <<data_stream, index_stream, writer_pos, data_flushed,
                          index_flushed, sealed>>]_vars

\* C20's case: after a session that wrote to both streams was stopped, stop
\* was called again and returned an error.
C20_Witness ==
    /\ state = "Stopped"
    /\ result = [op |-> "stop", res |-> "Err"]
    /\ data_stream # <<>> /\ index_stream # <<>>

\* The render calls of the current session that returned Ok, in order, and
\* those of them whose buffer had a valid timestamp.
OkRenders ==
    SelectSeq(rendered, LAMBDA r : r.session = session /\ r.res = "Ok")

TimedOkRenders == SelectSeq(OkRenders, LAMBDA r : IsSome(r.timestamp))

\* The records a step appends to the index stream.
NewRecords == SubSeq(index_stream', Len(index_stream) + 1, Len(index_stream'))

TimedEvents ==
    SelectSeq(data_stream,
              LAMBDA e : e.session = session /\ IsSome(e.timestamp))

\* C15: after a stop that appended a final index record, the final record's
\* timestamp is strictly greater than the timestamp of the last data written
\* to the data stream in the session.
C15_FinalTimestampAfterLastData ==
    (/\ result = [op |-> "stop", res |-> "Ok"]
     /\ index_stream # <<>>
     /\ index_stream[Len(index_stream)].by = "stop"
     /\ index_stream[Len(index_stream)].session = session
     /\ TimedEvents # <<>>) =>
        index_stream[Len(index_stream)].timestamp
          > TimedEvents[Len(TimedEvents)].timestamp


C17_TruncationStrictlyBehindWriter ==
    truncation.stream = "data" => truncation.offset < truncation.writer_pos

\* C17 (amended): each truncation of the data stream is at an offset at or
\* behind the position of the data writer when it is issued, so that
\* every byte it removes is strictly behind that position.
C17_TruncationNotPastWriter ==
    truncation.stream = "data" => truncation.offset <= truncation.writer_pos

\* The maintainer truncated the data stream at the writer's position: at
\* the offset of the final record stop had just written.
C17_Witness ==
    /\ truncation.stream = "data"
    /\ truncation.offset = truncation.writer_pos
    /\ truncation.offset > 0
    /\ stop_sent

\* C18: once the state is Stopped after a session, its maintainer thread
\* has ended, and every truncation of either stream was issued while the
\* state was still Started.
C18_StopJoinsMaintainer ==
    /\ (state = "Stopped" /\ session > 0)
          => maintainer \in {"none", "exited", "panicked"}
    /\ truncation.stream # "none" => truncation.state = "Started"

\* stop returned Ok in a session whose maintainer went through a search
\* and its truncations after the stop message, and then left its loop.
C18_Witness ==
    /\ state = "Stopped"
    /\ result = [op |-> "stop", res |-> "Ok"]
    /\ maintainer = "exited"
    /\ pairs_after_stop = 1
    /\ truncation.stream = "data"

\* C19 (as claimed): after the stop message the maintainer goes through
\* at most one search with its truncations, under every policy.
C19_OnePairAfterStop == pairs_after_stop <= 1

\* C19 (amended): after the stop message the maintainer goes through at
\* most the rest of its cycle: one search with its truncations under Days
\* or Bytes, two (the time step, then the size step) under DaysAndBytes.
C19_OneCycleAfterStop ==
    pairs_after_stop <= IF retention_policy.type = "DaysAndBytes" THEN 2 ELSE 1

\* stop returned after the maintainer had gone through both steps of a
\* DaysAndBytes cycle since the stop message.
C19_Witness ==
    /\ retention_policy.type = "DaysAndBytes"
    /\ pairs_after_stop = 2
    /\ maintainer = "exited"
    /\ state = "Stopped"
    /\ result = [op |-> "stop", res |-> "Ok"]


\* The thread of the retention maintainer is in its loop.
MaintainerAlive == maintainer \notin {"none", "exited", "panicked"}

\* C21: a start that stopped at a failing check or call returned an
\* error, left the state Stopped, and left no maintainer thread behind.
C21_FailedStartStaysStopped ==
    (result.op = "start" /\ last_stage # "ok")
        => /\ result.res = "Err"
           /\ state = "Stopped"
           /\ ~retention_thread_handle
           /\ ~MaintainerAlive

\* A second start, after a session with a maintainer, failed on the
\* retention policy.
C21_Witness ==
    /\ result.op = "start"
    /\ last_stage = "bad_retention_policy"
    /\ session = 1
    /\ maintainer = "exited"
    /\ state = "Stopped"

\* C22: a start that fails with a configuration error (interval order,
\* missing stream, missing retention parameter) has made no call to the
\* controller or the storage, and created nothing.
C22_ConfigurationErrorsBeforeIO ==
    [][(/\ result'.op = "start"
        /\ <<result, last_stage, created>>' # <<result, last_stage, created>>
        /\ last_stage' \in {"bad_intervals", "no_stream",
                            "bad_retention_policy"})
        => (StartCalls(last_stage') = {} /\ created' = created)]_vars


\* C23: in a Started session there is a maintainer thread (a join handle,
\* and a thread that was spawned) exactly when the session's retention
\* policy is not None; with the policy None nothing is ever truncated.
C23_MaintainerIffPolicy ==
    state = "Started" =>
        /\ retention_thread_handle <=> retention_policy.type # "None"
        /\ maintainer # "none" <=> retention_policy.type # "None"
        /\ retention_policy.type = "None" => truncation.stream = "none"

\* A session without a policy (retention-bytes is set, the type is not)
\* that has written its index records, with no thread beside it.
C23_Witness ==
    /\ state = "Started"
    /\ retention_policy.type = "None"
    /\ IsSome(settings.retention_bytes)
    /\ Len(index_stream) = MaxCalls
    /\ ~retention_thread_handle
    /\ maintainer = "none"


C25_LocateMissSkipsStep ==
    [][(maintainer \in {"time", "size"}
        /\ maintainer' \notin {maintainer, "time_index", "size_index"})
          => /\ ~search_result'.found
             /\ UNCHANGED <<index_head, data_head, truncation>>
             /\ maintainer' =
                   IF maintainer = "time"
                      /\ retention_policy.type = "DaysAndBytes"
                   THEN "size" ELSE "recv"]_vars

\* Both searches of a DaysAndBytes cycle found no record in an index that
\* has records, and the thread waits for its next cycle.
C25_Witness ==
    /\ retention_policy.type = "DaysAndBytes"
    /\ maintainer = "recv"
    /\ ~search_result.found
    /\ truncation.stream = "none"
    /\ index_flushed > 0


\* C26: the wait at the end of a cycle.  With a stop message in the
\* channel it ends the thread, which issues no search and no truncation
\* afterwards; on a timeout it begins another cycle.  Hence once stop has
\* sent the message the thread eventually ends.
C26_StopSignalEndsLoop ==
    /\ [][
          /\ (maintainer = "recv" /\ maintainer' # maintainer)
                => (/\ maintainer' =
                          IF stop_sent THEN "exited"
                          ELSE IF retention_policy.type = "Bytes" THEN "size"
                          ELSE "time"
                    /\ UNCHANGED <<search_result, truncation, index_head,
                                   data_head>>)
          /\ (maintainer = "exited")
                => (/\ maintainer' = "exited"
                    /\ UNCHANGED <<search_result, truncation, index_head,
                                   data_head>>)
       ]_vars
    /\ (stop_sent ~> ~MaintainerAlive)

\* The thread went through a cycle that truncated, a timeout and further
\* cycles, and left its loop at the wait after the stop message.
C26_Witness ==
    /\ stop_sent
    /\ maintainer = "exited"
    /\ pairs_after_stop = 0
    /\ truncation.stream = "data"
    /\ truncation.offset < writer_pos

\* C27: an I/O failure in render or stop ends the call at once with an
\* error, and no later step of the call runs.  In render: a failed flush
\* before the index record writes no index record and no data event; a
\* failed index append writes no data event and leaves last_index_time; a
\* failed data append writes no event after the failing one and leaves
\* final_timestamp, final_offset and buffers_written; a failed trailing
\* flush leaves final_timestamp and final_offset.  In stop: a failed data
\* flush appends no final record; a failed append of the final record
\* flushes no index and seals nothing; a failed index flush seals nothing;
\* a failed seal of the data stream does not seal the index stream; and
\* the sink stays Started.
\* A step that is a call of render, and one that is a call of stop that
\* returns, in Started.
RenderStep == state = "Started" /\ calls' = calls + 1

StopStep == state = "Started" /\ calls' = calls /\ result'.op = "stop"

C27_IOFailureAborts ==
    [][
        /\ (RenderStep /\ last_fail'.at = "flush")
              => (/\ result'.res = "Err"
                  /\ UNCHANGED <<index_stream, data_stream, data_flushed,
                                 last_index_time, final_timestamp,
                                 final_offset>>)
        /\ (RenderStep /\ last_fail'.at = "index_write")
              => (/\ result'.res = "Err"
                  /\ UNCHANGED <<index_stream, data_stream, last_index_time,
                                 final_timestamp, final_offset>>)
        /\ (RenderStep /\ last_fail'.at = "data_write")
              => (/\ result'.res = "Err"
                  /\ Len(data_stream') - Len(data_stream) <= last_fail'.chunk
                  /\ UNCHANGED <<final_timestamp, final_offset,
                                 buffers_written, index_flushed>>)
        /\ (RenderStep
              /\ last_fail'.at \in {"sync_flush_data", "sync_flush_index"})
              => (/\ result'.res = "Err"
                  /\ UNCHANGED <<final_timestamp, final_offset,
                                 index_flushed>>)
        /\ (StopStep /\ last_fail' = "flush")
              => (/\ result'.res = "Err"
                  /\ UNCHANGED <<state, data_flushed, index_stream,
                                 index_flushed, sealed>>)
        /\ (StopStep /\ last_fail' = "index_write" /\ HasFinalRecord)
              => (/\ result'.res = "Err"
                  /\ UNCHANGED <<state, index_stream, index_flushed, sealed>>)
        /\ (StopStep /\ last_fail' = "index_flush")
              => (/\ result'.res = "Err"
                  /\ UNCHANGED <<state, index_flushed, sealed>>)
        /\ (StopStep /\ last_fail' = "seal_data")
              => (/\ result'.res = "Err"
                  /\ UNCHANGED <<state, sealed>>)
        /\ (StopStep /\ last_fail' = "seal_index")
              => (/\ result'.res = "Err"
                  /\ state' = state
                  /\ "index" \in sealed' <=> "index" \in sealed)
    ]_vars

\* A render whose index append failed, in a session that had an index
\* record and data events before it.
C27_Witness ==
    /\ state = "Started"
    /\ result = [op |-> "render", res |-> "Err"]
    /\ last_fail = [at |-> "index_write", chunk |-> 0]
    /\ last_stage = "index_failed"
    /\ decision.call = 2
    /\ Len(index_stream) = 1
    /\ last_index_time = index_stream[1].timestamp
    /\ Len(data_stream) = 2

\* C28: in a Started session last_index_time is the timestamp of the most
\* recent index record render wrote in the session, and it is none exactly
\* when render has written no index record in the session.
C28_LastIndexTimeIsLastRecord ==
    state = "Started" =>
        /\ last_index_time =
              IF SessionRenderRecords = <<>> THEN NONE
              ELSE SessionRenderRecords[Len(SessionRenderRecords)].timestamp
        /\ ~IsSome(last_index_time) <=> SessionRenderRecords = <<>>

\* Two records written by render in the session, the second with another
\* timestamp than the first.
C28_Witness ==
    /\ state = "Started"
    /\ Len(SessionRenderRecords) = 2
    /\ SessionRenderRecords[1].timestamp # SessionRenderRecords[2].timestamp
    /\ last_index_time = SessionRenderRecords[2].timestamp
    /\ decision.call = SessionRenderRecords[2].call

\* C29: after a successful stop nothing the session appended is unflushed:
\* in Stopped the whole data stream and the whole index stream are flushed.
\* And stop keeps the order: the final record is appended with the data
\* stream flushed up to the writer's position, a stream is sealed only with
\* both streams flushed, final record included.
C29_StopFlushesInOrder ==
    /\ [](state = "Stopped" /\ session > 0
             => /\ data_flushed = writer_pos
                /\ index_flushed = Len(index_stream)
                /\ \A i \in 1..Len(data_stream) :
                      data_stream[i].offset < data_flushed)
    /\ [][
          /\ (StopStep /\ index_stream' # index_stream)
                => (/\ data_flushed' = writer_pos
                    /\ index_stream'[Len(index_stream')].flushed = writer_pos)
          /\ (StopStep /\ sealed' # sealed)
                => (/\ data_flushed' = writer_pos
                    /\ index_flushed' = Len(index_stream'))
          /\ (StopStep /\ state' = "Stopped")
                => (/\ HasFinalRecord =>
                          /\ Len(index_stream') = Len(index_stream) + 1
                          /\ index_stream'[Len(index_stream')].by = "stop"
                    /\ data_flushed' = writer_pos
                    /\ index_flushed' = Len(index_stream'))
       ]_vars

\* Stopped after a session whose last buffer was written without a flush
\* and whose stop appended the final record and sealed.
C29_Witness ==
    /\ state = "Stopped"
    /\ session = 1
    /\ result = [op |-> "stop", res |-> "Ok"]
    /\ last_stage = "ok"
    /\ decision.outcome = "decided"
    /\ decision.call = 2
    /\ decision.stage = "ok"
    /\ "SYNC_AFTER" \notin decision.flags
    /\ decision.data_flushed < writer_pos
    /\ Len(FinalRecords) = 1
    /\ sealed = {"data", "index"}

\* C30: with seal set, a successful stop has sealed the data stream and the
\* index stream, and a stream that is sealed gets no append from the
\* session; without seal, stop seals no stream.
C30_SealOnStop ==
    /\ [](state = "Stopped" /\ session > 0
             => sealed = IF settings.seal THEN {"data", "index"} ELSE {})
    /\ [][
          /\ "data" \in sealed => data_stream' = data_stream
          /\ "index" \in sealed => index_stream' = index_stream
          /\ StopStep =>
                (/\ ~settings.seal => sealed' = sealed
                 /\ (settings.seal /\ state' = "Stopped")
                       => sealed' = {"data", "index"}
                 /\ sealed' # sealed
                       => UNCHANGED <<data_stream, writer_pos>>)
       ]_vars

\* Stopped with both streams sealed by the second call of stop, after the
\* first sealed the data stream and failed to seal the index stream and
\* a render in between was refused by the sealed data stream.
C30_Witness ==
    /\ state = "Stopped"
    /\ session = 1
    /\ settings.seal
    /\ sealed = {"data", "index"}
    /\ last_stage = "ok"
    /\ last_fail = "none"
    /\ decision.outcome = "decided"
    /\ decision.call = 2
    /\ decision.stage = "data_failed"
    /\ Len(data_stream) = 2
    /\ Len(FinalRecords) = 2

\* What the first n buffers of the log make of a session that has no
\* maintainer: the session state and the streams after render was called
\* with each of them in turn (random-access buffers of one byte without
\* flags, no storage failure).
RECURSIVE Replayed(_, _)
Replayed(log, n) ==
    IF n = 0
    THEN [first_valid |-> NONE, last_index |-> NONE, written |-> 0,
          pos |-> 0, final_timestamp |-> NONE, index |-> <<>>, data |-> <<>>]
    ELSE LET s == Replayed(log, n - 1)
             timestamp == log[n].timestamp
             first_valid == IF ~IsSome(s.first_valid) THEN timestamp
                            ELSE s.first_valid
             dec == IncludeInIndex(overflow_checks, timestamp, FALSE,
                                   s.last_index, first_valid,
                                   settings.index_min_nanos,
                                   settings.index_max_nanos)
             discontinuity == Discontinuity({}, s.written, dec.include,
                                            s.last_index)
             events == Fragments(Payload(1), 0, timestamp, dec.include, TRUE,
                                 discontinuity)
             record == [timestamp |-> timestamp, offset |-> s.pos,
                        random_access |-> TRUE,
                        discontinuity |-> discontinuity,
                        by |-> "render", session |-> log[n].session,
                        call |-> n, flushed |-> s.pos]
         IN  [first_valid |-> first_valid,
              last_index |-> IF dec.include THEN timestamp ELSE s.last_index,
              written |-> s.written + 1,
              pos |-> s.pos + EventsSize(events),
              final_timestamp |->
                  FinalTimestamp(timestamp, log[n].duration).value,
              index |-> IF dec.include THEN Append(s.index, record)
                        ELSE s.index,
              data |-> s.data \o Placed(events, s.pos, n)]

\* The final record a stop appends after the whole log.
ReplayedFinal(log) ==
    LET s == Replayed(log, Len(log))
    IN  IF log = <<>> THEN <<>>
        ELSE <<[timestamp |-> s.final_timestamp, offset |-> s.pos,
                random_access |-> FALSE, discontinuity |-> FALSE,
                by |-> "stop", session |-> log[1].session, call |-> 0,
                flushed |-> s.pos]>>

\* C31: the maintainer and the calls of the element do not touch each
\* other's writes.  A step of the thread leaves the streams' contents, the
\* session state, the state and the settings of the element as they are;
\* render and stop leave the heads of the streams as they are; and
\* whatever the thread did in between, the data events and index records
\* of the session are those the logged buffers, and the stop, give without
\* a maintainer.
C31_MaintainerDoesNotInterfere ==
    /\ [](session > 0 =>
            /\ data_stream = Replayed(rendered, Len(rendered)).data
            /\ index_stream =
                  Replayed(rendered, Len(rendered)).index
                    \o (IF state = "Stopped" \/ stopping
                        THEN ReplayedFinal(rendered) ELSE <<>>))
    /\ [][
          /\ (session' = session /\ maintainer' # maintainer)
                => UNCHANGED <<streamVars, sessionVars, state, settings,
                               panicked, result, calls, stopping,
                               retention_thread_handle>>
          /\ (state = "Started"
                /\ (calls' # calls \/ result' # result
                      \/ stopping' # stopping \/ state' # state))
                => UNCHANGED <<index_head, data_head, truncation,
                               search_result, maintainer>>
       ]_vars

\* A stopped session of two buffers whose maintainer truncated the data
\* stream between the two renders.
C31_Witness ==
    /\ state = "Stopped"
    /\ session = 1
    /\ Len(rendered) = 2
    /\ Len(index_stream) = 3
    /\ truncation.stream = "data"
    /\ truncation.state = "Started"
    /\ truncation.writer_pos < writer_pos
    /\ truncation.writer_pos > 0

\* A step that is a call of start.
StartStep ==
    /\ state = "Stopped"
    /\ settings' = settings
    /\ result'.op = "start"
    /\ <<result, last_stage, last_fail, state>>'
          # <<result, last_stage, last_fail, state>>

\* C32: a start that gets to the construction of the retention policy
\* fails there exactly when a parameter the selected type requires is not
\* set: retention-days for Days, retention-bytes for Bytes, both for
\* DaysAndBytes, none for None, which ignores both.  The failure is an
\* error of start, which stays Stopped; otherwise the session has the
\* policy of the selected type with the parameters set.
C32_Missing ==
    CASE settings.retention_type = "Days" -> settings.retention_days = NONE
      [] settings.retention_type = "Bytes" -> settings.retention_bytes = NONE
      [] settings.retention_type = "DaysAndBytes" ->
            settings.retention_days = NONE \/ settings.retention_bytes = NONE
      [] settings.retention_type = "None" -> FALSE

C32_PolicyFailsWhenParameterMissing ==
    [][(StartStep /\ last_stage' \in {"bad_retention_policy", "ok"})
        => /\ last_stage' = "bad_retention_policy" <=> C32_Missing
           /\ C32_Missing => (result'.res = "Err" /\ state' = "Stopped")
           /\ ~C32_Missing =>
                 /\ result'.res = "Ok"
                 /\ state' = "Started"
                 /\ retention_policy'.type = settings.retention_type
                 /\ settings.retention_type \in {"Days", "DaysAndBytes"}
                       => retention_policy'.days = settings.retention_days
                 /\ settings.retention_type \in {"Bytes", "DaysAndBytes"}
                       => retention_policy'.bytes = settings.retention_bytes
                 /\ settings.retention_type = "None"
                       => retention_policy' = NoPolicy
    ]_vars

\* A start that failed for a Bytes policy without retention-bytes, though
\* retention-days was set.
C32_Witness ==
    /\ state = "Stopped"
    /\ result = [op |-> "start", res |-> "Err"]
    /\ last_stage = "bad_retention_policy"
    /\ settings.retention_type = "Bytes"
    /\ settings.retention_days # NONE
    /\ settings.retention_bytes = NONE

\* C33: in every render of a Started session the intervals the decision
\* used satisfy index_min_nanos <= index_max_nanos, also when the interval
\* properties were set after start.
C33_RenderIntervalsOrdered ==
    decision.outcome # "none"
        => decision.index_min_nanos <= decision.index_max_nanos

\* C34: no index record dangles: every record the index stream still
\* retains has a data offset at or after the head of the data stream, in
\* every state, between the two truncations of a step and after a failed
\* truncation included.
C34_NoDanglingIndexRecord ==
    \A i \in 1..Len(index_stream) :
        i > index_head => index_stream[i].offset >= data_head

\* A step that is a call of stop beside the maintainer: in Started and not
\* yet in join, neither a render nor a step of the thread.
StopCallStep ==
    /\ state = "Started"
    /\ ~stopping
    /\ calls' = calls
    /\ maintainer' = maintainer
    /\ last_fail' \in SealStopFails

\* The call of stop that the storage fails is one stop makes.
C35_FailureHits ==
    \/ last_fail' \in {"flush", "index_flush"}
    \/ last_fail' = "index_write" /\ HasFinalRecord
    \/ last_fail' \in {"seal_data", "seal_index"} /\ settings.seal

\* C35: a stop that fails at the data flush, the append of the final
\* record, the index flush or a seal returns the error in Started without
\* the stop message sent, the thread not joined and going on with its
\* cycles (it ends only by the message or a panic); the state becomes
\* Stopped only by a stop of which every step succeeded.
C35_FailedStopStaysStarted ==
    /\ [](~stop_sent => maintainer # "exited")
    /\ [][
          /\ (StopCallStep /\ C35_FailureHits)
                => (/\ result' = [op |-> "stop", res |-> "Err"]
                    /\ state' = "Started"
                    /\ ~stop_sent'
                    /\ ~stopping'
                    /\ UNCHANGED <<retention_thread_handle, maintainer,
                                   sessionVars>>)
          /\ (state = "Started" /\ state' = "Stopped")
                => (/\ last_stage' = "ok"
                    /\ retention_thread_handle => stop_sent /\ Joined
                    /\ data_flushed' = writer_pos
                    /\ index_flushed' = Len(index_stream')
                    /\ settings.seal => sealed' = {"data", "index"})
       ]_vars

\* After a stop that sealed the data stream and failed to seal the index
\* stream, the maintainer is between its two truncations.
C35_Witness ==
    /\ state = "Started"
    /\ result = [op |-> "stop", res |-> "Err"]
    /\ last_fail = "seal_index"
    /\ last_stage = "seal_index_failed"
    /\ sealed = {"data"}
    /\ ~stop_sent
    /\ retention_thread_handle
    /\ maintainer = "time_data"
    /\ truncation.stream = "index"
    /\ Len(FinalRecords) = 1
    /\ truncation.offset = 1

\* C36: stop always gets past the maintainer.  A stop whose steps have
\* succeeded sends the message whether the thread is alive or has ended
\* (the result of send is dropped) and waits in join; join returns once
\* the thread has ended, by the break or by a panic, and the state is then
\* Stopped with Ok; a thread that is alive ends at its next recv_timeout.
\* So every stop that waits in join reaches Stopped.
C36_StopGetsPastMaintainer ==
    /\ [][
          /\ (StopCallStep /\ ~C35_FailureHits /\ retention_thread_handle)
                => (stopping' /\ stop_sent' /\ state' = "Started")
          /\ (stopping /\ ~stopping')
                => (/\ Joined
                    /\ state' = "Stopped"
                    /\ result' = [op |-> "stop", res |-> "Ok"]
                    /\ ~retention_thread_handle')
          /\ (stop_sent /\ maintainer = "recv" /\ maintainer' # maintainer)
                => maintainer' = "exited"
       ]_vars
    /\ (stopping ~> (state = "Stopped" /\ ~stopping))

\* Stopped after a session whose thread had panicked on a truncation
\* before the last render, so before stop sent the message.
C36_Witness ==
    /\ state = "Stopped"
    /\ session = 1
    /\ result = [op |-> "stop", res |-> "Ok"]
    /\ stop_sent
    /\ maintainer = "panicked"
    /\ truncation.state = "Started"
    /\ truncation.writer_pos < writer_pos

\* A handler waits for a mutex that another thread, or itself, holds.
WaitsFor(t, h) ==
    \/ pc[t] = "lock_state" /\ state_lock = h
    \/ pc[t] = "lock_settings" /\ settings_lock = h

\* A handler holds the settings mutex it did not hold before the step.
TakesSettings(t) == settings_lock # t /\ settings_lock' = t

\* C37: start, render, stop and set_property cannot deadlock under any
\* interleaving.  No handler waits for a mutex it holds itself, no two
\* handlers wait for each other, and while some handler is inside its
\* call some step of a handler or of the maintainer can be taken; start
\* and render take the settings mutex only while they hold the state
\* mutex, stop takes the state mutex only after it released the settings
\* mutex, set_property never holds the state mutex, and while stop waits
\* in join, holding the state mutex, the join or a step of the
\* maintainer can be taken whatever the other handlers hold.
C37_HandlersCannotDeadlock ==
    /\ [](\A t \in Threads : ~WaitsFor(t, t))
    /\ [](\A t, h \in Threads : ~(WaitsFor(t, h) /\ WaitsFor(h, t)))
    /\ []((\E t \in Threads : pc[t] # "idle") => ENABLED Progress)
    /\ [][\A t \in {"start", "render"} :
             TakesSettings(t) => state_lock = t /\ state_lock' = t]_vars
    /\ [][(state_lock # "stop" /\ state_lock' = "stop")
             => (settings_lock # "stop" /\ settings_lock' # "stop")]_vars
    /\ [](state_lock # "set_property")
    /\ [](pc["stop"] = "join"
            => /\ state_lock = "stop"
               /\ ENABLED (StopJoinLocked \/ MaintainerSearches
                             \/ MaintainerTruncates \/ MaintainerWaits))

\* stop waits in join with the state mutex, the maintainer still runs,
\* render waits for the state mutex and set_property holds the settings
\* mutex.
C37_Witness ==
    /\ pc["stop"] = "join"
    /\ state_lock = "stop"
    /\ MaintainerAlive
    /\ pc["render"] = "lock_state"
    /\ pc["set_property"] = "body"
    /\ settings_lock = "set_property"

\* C38: for all 64-bit timestamps and all configurable interval values,
\* the sum render computes for its inclusion decision (last_index_time +
\* index_max_nanos for a delta buffer after a record, last_index_time +
\* index_min_nanos for a random-access buffer after a record,
\* first_valid_time + index_max_nanos for a delta buffer before any
\* record) does not exceed the 64-bit range, so render does not panic in
\* the sum and decides as unbounded arithmetic does.
C38_SumsFitU64 ==
    Decided =>
        LET is_delta_unit == "DELTA_UNIT" \in decision.flags
            sum == IF IsSome(decision.last_index_time)
                   THEN decision.last_index_time
                          + (IF is_delta_unit THEN decision.index_max_nanos
                             ELSE decision.index_min_nanos)
                   ELSE IF is_delta_unit /\ IsSome(decision.first_valid_time)
                        THEN decision.first_valid_time
                               + decision.index_max_nanos
                        ELSE 0
        IN  /\ sum <= U64Max
            /\ decision.outcome # "panic"

====
